---- MODULE Spec2Model ----
(***************************************************************************)
(* A model of the pydeflate compressor: the LZ77 matcher (lz77.py), the    *)
(* integer codec (integer.py), the Huffman builder (huffman.py) and the    *)
(* DEFLATE-style framing with its bit source and sink (deflate.py).        *)
(*                                                                         *)
(* Byte strings are sequences of 0..255, bit strings (the b'0'/b'1' byte   *)
(* strings of the source) are sequences of 0/1, Python's None is None.     *)
(* A 0-based Python index k is the 1-based index k+1 here.                 *)
(***************************************************************************)
EXTENDS Integers, Sequences, FiniteSets, TLC

VARIABLES
    prog,                 \* the entry point under execution
    pc,                   \* the position inside it
    err,                  \* the exception that ended the run, or "none"
    data,                 \* encode / compress: the input byte buffer
    cur,                  \* LZ77Compressor.encode: the cursor i
    tokens,               \* LZ77Compressor.encode: the token list
    blocks,               \* compress: the token blocks still to be framed
    res,                  \* compress: the bit string written so far
    res_dynamic,          \* compress: the dynamic frame of the last block framed
    res_fixed,            \* compress: the fixed frame of the last block framed
    packed,               \* the compressed bytes (compress's result, decompress's input)
    bits,                 \* the bit string being consumed (decompress's data)
    block_header,         \* decompress: the header of the current block
    length_literal_code,  \* decompress: the literal/length decode table in use
    distance_code,        \* decompress: the distance decode table in use
    last_symbol,          \* decompress: the last literal/length symbol decoded
    dtokens,              \* the token list built by decompress / handed to decode
    output,               \* the bytes returned by LZ77Compressor.decode / decompress
    intvec,               \* IntegerCompressor.encode: the integers
    numbers,              \* IntegerCompressor.decode: decoded_numbers
    arg,                  \* a function called on its own: its arguments
    ret                   \* a function called on its own: what it returned

encvars == <<data, cur, tokens>>
cmpvars == <<blocks, res, res_dynamic, res_fixed>>
decvars == <<block_header, length_literal_code, distance_code, last_symbol>>
intvars == <<intvec, numbers>>
callvars == <<arg, ret>>
vars == <<prog, pc, err, encvars, cmpvars, packed, bits, decvars, dtokens, output, intvars,
          callvars>>

----------------------------------------------------------------------------
(* Bounds of the model *)

\* longest input buffer enumerated exhaustively
MaxLen == 7

\* the byte values of the exhaustively enumerated buffers
ByteAlphabet == {97, 98}

\* longest word w of the repetitive buffers w w t
MaxWord == 4

\* the integer vectors given to the integer codec: values 0..MaxInt, length 0..MaxVecLen
MaxInt == 8
MaxVecLen == 3

\* the byte strings given to the bit source: up to MaxBytes bytes drawn from SampleBytes
MaxBytes == 5
SampleBytes == {0, 9, 127}

\* the bit streams given to decompress: up to MaxChunks pieces of StreamChunks,
\* with up to the last bit cut off
MaxChunks == 3
Cuts == {0, 1}

\* the long buffers given to compress: LongRun or LongRun + 1 bytes 255, then one or
\* two bytes 254
LongRun == 230

\* the repetitions of the fox text in the buffer longer than the search window
WindowRepeats == 18

\* the symbol lists given to create_codes: the letters 0..NumLetters-1, each occurring
\* 0..MaxCount times
NumLetters == 4
MaxCount == 4

\* the code-length vectors given to generate_dynamic_huffman_codes: at most
\* MaxLengths lengths 0..MaxBits
MaxLengths == 5
MaxBits == 3

\* the longest bit string given to binary_string_to_bytes
MaxBitString == 10

\* the number of calls made on one BlockSplitter
MaxCalls == 4

\* the bits that follow a code word in the data given to a decoder
Rests == {<<>>, <<1>>, <<0, 1, 1, 0>>}

----------------------------------------------------------------------------
(* Generic helpers *)

None == -1

Min(a, b) == IF a < b THEN a ELSE b
Max(a, b) == IF a > b THEN a ELSE b

\* all sequences over S of length 0..n
SeqsUpTo(S, n) == UNION {[1..k -> S] : k \in 0..n}

\* Python's s[a:b] for 0 <= a, 0 <= b
Slice(s, a, b) == SubSeq(s, a + 1, Min(b, Len(s)))

\* every buffer up to MaxLen bytes, and the repetitive buffers w w t
ShortBuffers == SeqsUpTo(ByteAlphabet, MaxLen)
RepetitiveBuffers ==
    {w \o w \o t : w \in [1..MaxWord -> ByteAlphabet], t \in SeqsUpTo(ByteAlphabet, MaxWord)}

\* b"abcabcabcabc" and b"abcabcabc", the repeated patterns the tests compress
AbcTimes(n) == [k \in 1..(3 * n) |-> 97 + ((k - 1) % 3)]
PatternBuffers == {AbcTimes(3), AbcTimes(4)}

\* b"The quick brown fox jumps over the lazy dog. "
FoxText ==
    <<84, 104, 101, 32, 113, 117, 105, 99, 107, 32, 98, 114, 111, 119, 110, 32, 102, 111,
      120, 32, 106, 117, 109, 112, 115, 32, 111, 118, 101, 114, 32, 116, 104, 101, 32,
      108, 97, 122, 121, 32, 100, 111, 103, 46, 32>>

\* the text n times over
FoxTimes(n) == [k \in 1..(Len(FoxText) * n) |-> FoxText[((k - 1) % Len(FoxText)) + 1]]

\* n1 even bytes below 64, then n2 odd bytes above 192: the literals of the first part
\* are of observation type 0, those of the second of type 7
SwitchBuffer(n1, n2) ==
    [k \in 1..n1 |-> 2 * (((k - 1) * (k - 1) + ((k - 1) \div 61)) % 32)]
    \o [k \in 1..n2 |-> 193 + 2 * (((k - 1) * (k - 1) + ((k - 1) \div 61)) % 31)]

----------------------------------------------------------------------------
(* lz77.py *)

window_size == 512
lookahead_size == 257

\* a matcher that settles for two bytes
min_match_length_short == 3 - 1

min_match_length == 3
stop_after == 1048576

\* one iteration of the while loop of _kmp_preprocess_pattern on <<table, i, j>>
KmpTableStep(pattern, st) ==
    LET table == st[1]
        i == st[2]
        j == st[3]
    IN  IF pattern[i + 1] = pattern[j + 1]
        THEN <<[table EXCEPT ![j + 1] = i + 1], i + 1, j + 1>>
        ELSE IF i = 0
        THEN <<[table EXCEPT ![j + 1] = 0], i, j + 1>>
        ELSE <<table, table[i], j>>

\* at most n iterations of `while j < m`, the first half and then the second half
RECURSIVE KmpTableRun(_, _, _)
KmpTableRun(pattern, st, n) ==
    IF st[3] >= Len(pattern) \/ n = 0 THEN st
    ELSE IF n = 1 THEN KmpTableStep(pattern, st)
    ELSE CHOOSE r \in {KmpTableRun(pattern, mid, n - (n \div 2)) :
                          mid \in {KmpTableRun(pattern, st, n \div 2)}} : TRUE

\* the loop ends within 2m iterations: each one advances j or lowers i
kmp_preprocess_pattern(pattern) ==
    KmpTableRun(pattern, <<[k \in 1..Len(pattern) |-> 0], 0, 1>>, 2 * Len(pattern))[1]

\* the loop body with `i >= longest_match_length`: a later partial match of the same
\* length replaces the earlier one
KmpSearchStepLatest(search_string, pattern, table, st) ==
    IF st.j - st.i >= stop_after THEN [st EXCEPT !.stopped = TRUE]
    ELSE IF pattern[st.i + 1] = search_string[st.j + 1]
    THEN [st EXCEPT !.i = @ + 1, !.j = @ + 1, !.found = (st.i + 1 = Len(pattern))]
    ELSE IF st.i = 0
    THEN [st EXCEPT !.j = @ + 1]
    ELSE IF st.i >= st.longest_match_length
    THEN [st EXCEPT !.i = table[st.i], !.longest_match_length = st.i,
                    !.longest_match_index = st.j - st.i]
    ELSE [st EXCEPT !.i = table[st.i]]

\* one iteration of the while loop of _partial_kmp_search on
\* [i, j, longest_match_length, longest_match_index, found, stopped]; found is set by
\* the return inside the loop, stopped by the `break` when j - i >= stop_after
KmpSearchStep(search_string, pattern, table, st) ==
    IF st.j - st.i >= stop_after THEN [st EXCEPT !.stopped = TRUE]
    ELSE IF pattern[st.i + 1] = search_string[st.j + 1]
    THEN [st EXCEPT !.i = @ + 1, !.j = @ + 1, !.found = (st.i + 1 = Len(pattern))]
    ELSE IF st.i = 0
    THEN [st EXCEPT !.j = @ + 1]
    ELSE IF st.i > st.longest_match_length
    THEN [st EXCEPT !.i = table[st.i], !.longest_match_length = st.i,
                    !.longest_match_index = st.j - st.i]
    ELSE [st EXCEPT !.i = table[st.i]]

\* at most n iterations of `while j < n`
RECURSIVE KmpSearchRun(_, _, _, _, _)
KmpSearchRun(search_string, pattern, table, st, n) ==
    IF st.j >= Len(search_string) \/ st.found \/ st.stopped \/ n = 0 THEN st
    ELSE IF n = 1 THEN KmpSearchStep(search_string, pattern, table, st)
    ELSE CHOOSE r \in {KmpSearchRun(search_string, pattern, table, mid, n - (n \div 2)) :
                          mid \in {KmpSearchRun(search_string, pattern, table, st, n \div 2)}} : TRUE

\* <<index, length>>; the loop ends within 2n iterations
partial_kmp_search(search_string, pattern) ==
    LET st == CHOOSE r \in
                  {KmpSearchRun(search_string, pattern, table,
                                [i |-> 0, j |-> 0, longest_match_length |-> 0,
                                 longest_match_index |-> -1, found |-> FALSE,
                                 stopped |-> FALSE],
                                2 * Len(search_string)) :
                       table \in {kmp_preprocess_pattern(pattern)}} : TRUE
    IN  IF st.found THEN <<st.j - st.i, st.i>>
        ELSE IF st.longest_match_length >= min_match_length
        THEN <<st.longest_match_index, st.longest_match_length>>
        ELSE <<st.longest_match_index, 0>>

\* one iteration of the while loop of encode at cursor i: the token appended
EncodeToken(d, i) ==
    LET search_start == Max(0, i - window_size)
        search_window == Slice(d, search_start, i)
        lookahead_buffer == Slice(d, i, i + lookahead_size)
        m == partial_kmp_search(search_window, lookahead_buffer)
        match_index == m[1]
        match_length == m[2]
    IN  IF match_length > 0 /\ Len(lookahead_buffer) >= min_match_length
        THEN <<Len(search_window) - match_index, match_length,
               IF i + match_length < Len(d) THEN d[i + match_length + 1] ELSE None>>
        ELSE <<0, 0, d[i + 1]>>

\* the cursor moved past the match only, not past the literal that follows it
EncodeAdvanceNoLiteral(token) == IF token[2] > 0 THEN token[2] ELSE 1

\* how far that iteration moves the cursor
EncodeAdvance(token) == IF token[2] > 0 THEN token[2] + 1 ELSE 1

\* data[k] of Python for a possibly negative k: <<TRUE, byte>> or <<FALSE, 0>> (IndexError)
PyIndex(s, k) ==
    IF k >= 0 THEN (IF k < Len(s) THEN <<TRUE, s[k + 1]>> ELSE <<FALSE, 0>>)
    ELSE (IF -k <= Len(s) THEN <<TRUE, s[Len(s) + k + 1]>> ELSE <<FALSE, 0>>)

\* one iteration of the inner for loop of decode on <<exception or "none", data, j>>
CopyStep(start, st) ==
    LET b == PyIndex(st[2], start + st[3])
    IN  IF b[1] THEN <<"none", Append(st[2], b[2]), st[3] + 1>>
        ELSE <<"IndexError", st[2], st[3]>>

\* at most n iterations of `for j in range(length)`
RECURSIVE CopyRun(_, _, _, _)
CopyRun(start, length, st, n) ==
    IF st[1] # "none" \/ st[3] >= length \/ n = 0 THEN st
    ELSE IF n = 1 THEN CopyStep(start, st)
    ELSE CHOOSE r \in {CopyRun(start, length, mid, n - (n \div 2)) :
                          mid \in {CopyRun(start, length, st, n \div 2)}} : TRUE

\* one iteration of the for loop of decode: <<exception or "none", data>>
DecodeToken(out, token) ==
    LET copied == IF token[2] > 0
                  THEN CopyRun(Len(out) - token[1], token[2], <<"none", out, 0>>, token[2])
                  ELSE <<"none", out, 0>>
    IN  IF copied[1] # "none" THEN <<copied[1], copied[2]>>
        ELSE IF token[3] = None THEN <<"none", copied[2]>>
        ELSE IF token[3] > 255 THEN <<"OverflowError", copied[2]>>
        ELSE <<"none", Append(copied[2], token[3])>>

\* the tokens lo..hi of the for loop of decode, on <<exception or "none", data>>
RECURSIVE DecodeRun(_, _, _, _)
DecodeRun(toks, st, lo, hi) ==
    IF st[1] # "none" \/ lo > hi THEN st
    ELSE IF lo = hi THEN DecodeToken(st[2], toks[lo])
    ELSE CHOOSE r \in {DecodeRun(toks, mid, ((lo + hi) \div 2) + 1, hi) :
                          mid \in {DecodeRun(toks, st, lo, (lo + hi) \div 2)}} : TRUE

\* decode: <<"none", bytes>> or <<exception, bytes so far>>
LZ77Decode(toks) == DecodeRun(toks, <<"none", <<>>>>, 1, Len(toks))

----------------------------------------------------------------------------
(* integer.py *)

\* bin(num)[2:]: the binary numeral of num, "0" for 0
RECURSIVE Bin(_)
Bin(num) == IF num < 2 THEN <<num>> ELSE Append(Bin(num \div 2), num % 2)

\* int(s, 2) of a non-empty bit string
RECURSIVE BitsToInt(_)
BitsToInt(s) ==
    IF Len(s) = 0 THEN 0 ELSE 2 * BitsToInt(SubSeq(s, 1, Len(s) - 1)) + s[Len(s)]

Ones(n) == [k \in 1..n |-> 1]

\* encode with an empty payload for 0: the single bit "0"
IntegerEncodeOneEmptyZero(num) ==
    IF num = 0 THEN <<0>> ELSE LET b == Bin(num) IN Ones(Len(b)) \o <<0>> \o b

\* the bits encode appends for one integer
IntegerEncodeOne(num) == LET b == Bin(num) IN Ones(Len(b)) \o <<0>> \o b

\* the concatenation of the bits of v[lo..hi], in order
RECURSIVE IntegerEncodeRange(_, _, _)
IntegerEncodeRange(v, lo, hi) ==
    IF lo > hi THEN <<>>
    ELSE IF lo = hi THEN IntegerEncodeOne(v[lo])
    ELSE IntegerEncodeRange(v, lo, (lo + hi) \div 2)
         \o IntegerEncodeRange(v, ((lo + hi) \div 2) + 1, hi)

IntegerEncode(v) == IntegerEncodeRange(v, 1, Len(v))

\* while num < len(data) and data[num] == 49: num += 1
RECURSIVE CountOnes(_, _)
CountOnes(d, num) ==
    IF num < Len(d) /\ d[num + 1] = 1 THEN CountOnes(d, num + 1) ELSE num

\* one iteration of the `while True` loop of decode on
\* <<exception or "none", decoded_numbers, data, done>>
IntDecodeStep(length, st) ==
    LET d == st[3]
        num == CountOnes(d, 0)
        end_pos == num * 2 + 1
    IN  IF Len(d) = 0 THEN <<"ValueError", st[2], d, TRUE>>
        ELSE IF num >= Len(d) THEN <<"ValueError", st[2], d, TRUE>>
        ELSE IF end_pos > Len(d) THEN <<"ValueError", st[2], d, TRUE>>
        ELSE LET binary_str == Slice(d, num + 1, end_pos)
                 decoded_int == IF Len(binary_str) = 0 THEN 0 ELSE BitsToInt(binary_str)
                 appended == Append(st[2], decoded_int)
             IN  <<"none", appended, Slice(d, end_pos, Len(d)), Len(appended) = length>>

\* at most n iterations of that loop
RECURSIVE IntDecodeRun(_, _, _)
IntDecodeRun(length, st, n) ==
    IF st[4] \/ n = 0 THEN st
    ELSE IF n = 1 THEN IntDecodeStep(length, st)
    ELSE CHOOSE r \in {IntDecodeRun(length, mid, n - (n \div 2)) :
                          mid \in {IntDecodeRun(length, st, n \div 2)}} : TRUE

\* decode: <<exception or "none", decoded_numbers, data>>. Every iteration consumes a
\* bit or raises, so the loop ends within len(data) + 1 iterations.
IntegerDecode(d, length) ==
    LET st == IntDecodeRun(length, <<"none", <<>>, d, FALSE>>, Len(d) + 1)
    IN  <<st[1], st[2], st[3]>>

----------------------------------------------------------------------------
(* deflate.py: the bit sink and the bit source *)

\* the eight bits of a byte, least significant first
Format08bReversed(byte) == [k \in 1..8 |-> (byte \div (2 ^ (k - 1))) % 2]

\* format(byte, "08b")
Format08b(byte) == [k \in 1..8 |-> (byte \div (2 ^ (8 - k))) % 2]

\* n.to_bytes(4, "big") for n < 2^32
ToBytes4(n) == [k \in 1..4 |-> (n \div (256 ^ (4 - k))) % 256]

\* int.from_bytes(b, "big")
RECURSIVE FromBytesBig(_)
FromBytesBig(b) ==
    IF Len(b) = 0 THEN 0 ELSE 256 * FromBytesBig(SubSeq(b, 1, Len(b) - 1)) + b[Len(b)]

binary_string_to_bytes(binary_string) ==
    LET original_length == Len(binary_string)
        padding == (8 - (original_length % 8)) % 8
        binary_str == binary_string \o [k \in 1..padding |-> 0]
    IN  ToBytes4(original_length)
        \o [k \in 1..(Len(binary_str) \div 8) |->
                BitsToInt(SubSeq(binary_str, 8 * (k - 1) + 1, 8 * k))]

bytes_to_binary_string(d) ==
    LET original_length == FromBytesBig(Slice(d, 0, 4))
        payload == Slice(d, 4, Len(d))
        binary_str == [k \in 1..(8 * Len(payload)) |->
                          Format08b(payload[((k - 1) \div 8) + 1])[((k - 1) % 8) + 1]]
    IN  Slice(binary_str, 0, original_length)

----------------------------------------------------------------------------
(* huffman.py: canonical codes and decoding *)

\* the binary numeral of value without the zero padding
UnpaddedBin(value, width) == Bin(value)

\* f"{value:0{width}b}": the binary numeral of value, zero-padded to at least width
ZeroPaddedBin(value, width) ==
    LET b == Bin(value)
    IN  IF Len(b) >= width THEN b ELSE [k \in 1..(width - Len(b)) |-> 0] \o b

MaxOf(seq) == IF Len(seq) = 0 THEN 0
              ELSE CHOOSE x \in {seq[k] : k \in 1..Len(seq)} :
                       \A k \in 1..Len(seq) : seq[k] <= x

\* Python integers are unbounded and a code length read from a block header can
\* exceed the width of a machine word, so the code values are kept as binary
\* numerals (most significant bit first, <<0>> for zero)

\* code <<= 1
ShiftLeft(code) == IF code = <<0>> THEN code ELSE Append(code, 0)

\* code + n for a small natural n
RECURSIVE BinAdd(_, _)
BinAdd(code, n) ==
    IF n = 0 THEN code
    ELSE IF Len(code) = 0 THEN Bin(n)
    ELSE LET s == code[Len(code)] + n
         IN  Append(BinAdd(SubSeq(code, 1, Len(code) - 1), s \div 2), s % 2)

\* the numeral as it is, without the leading zeros of the format
Unpadded(code, width) == code

\* f"{code:0{width}b}" of a numeral
ZeroPadded(code, width) ==
    IF Len(code) >= width THEN code ELSE [k \in 1..(width - Len(code)) |-> 0] \o code

\* step 2 without the count of the codes of the length before
NextCodeStepNoCount(bl_count, st) ==
    <<[st[1] EXCEPT ![st[3]] = ShiftLeft(st[2])], ShiftLeft(st[2]), st[3] + 1>>

\* step 2 of generate_dynamic_huffman_codes, one iteration on <<next_code, code, bits>>
NextCodeStep(bl_count, st) ==
    <<[st[1] EXCEPT ![st[3]] = ShiftLeft(st[2])],
      BinAdd(ShiftLeft(st[2]), bl_count[st[3]]), st[3] + 1>>

\* at most n iterations of `for bits in range(1, max_bits + 1)`
RECURSIVE NextCodeRun(_, _, _)
NextCodeRun(bl_count, st, n) ==
    IF st[3] > Len(bl_count) \/ n = 0 THEN st
    ELSE IF n = 1 THEN NextCodeStep(bl_count, st)
    ELSE CHOOSE r \in {NextCodeRun(bl_count, mid, n - (n \div 2)) :
                          mid \in {NextCodeRun(bl_count, st, n \div 2)}} : TRUE

\* step 3, one iteration on <<next_code, assigned, i>>: the number assigned to the
\* symbol i (nothing for a symbol of length 0)
AssignStep(bit_lengths, st) ==
    LET length == bit_lengths[st[3] + 1]
    IN  IF length > 0
        THEN <<[st[1] EXCEPT ![length] = BinAdd(@, 1)], Append(st[2], st[1][length]),
               st[3] + 1>>
        ELSE <<st[1], Append(st[2], <<>>), st[3] + 1>>

\* at most n iterations of `for i in range(len(bit_lengths))`
RECURSIVE AssignRun(_, _, _)
AssignRun(bit_lengths, st, n) ==
    IF st[3] >= Len(bit_lengths) \/ n = 0 THEN st
    ELSE IF n = 1 THEN AssignStep(bit_lengths, st)
    ELSE CHOOSE r \in {AssignRun(bit_lengths, mid, n - (n \div 2)) :
                          mid \in {AssignRun(bit_lengths, st, n \div 2)}} : TRUE

\* the dict codes: symbol -> code word, over the symbols of positive length
generate_dynamic_huffman_codes(bit_lengths) ==
    IF Len(bit_lengths) = 0 \/ MaxOf(bit_lengths) = 0 THEN <<>>
    ELSE LET max_bits == MaxOf(bit_lengths)
             bl_count == [b \in 1..max_bits |->
                             Cardinality({k \in 1..Len(bit_lengths) : bit_lengths[k] = b})]
             next_code == NextCodeRun(bl_count, <<[b \in 1..max_bits |-> <<0>>], <<0>>, 1>>,
                                      max_bits)[1]
             assigned == AssignRun(bit_lengths, <<next_code, <<>>, 0>>, Len(bit_lengths))[2]
         IN  [i \in {k \in 0..(Len(bit_lengths) - 1) : bit_lengths[k + 1] > 0} |->
                 ZeroPadded(assigned[i + 1], bit_lengths[i + 1])]

\* {v: k for k, v in d.items()} for a dict d with ascending keys: the last key wins
InvertDict(d) ==
    [c \in {d[i] : i \in DOMAIN d} |->
        CHOOSE i \in DOMAIN d : d[i] = c /\ \A i2 \in DOMAIN d : d[i2] = c => i2 <= i]

generate_decode_table(bit_lengths) == InvertDict(generate_dynamic_huffman_codes(bit_lengths))

\* the longest code word of a decode table
LongestCode(code) ==
    IF DOMAIN code = {} THEN 0
    ELSE CHOOSE n \in {Len(c) : c \in DOMAIN code} : \A c \in DOMAIN code : Len(c) <= n

\* the for loop of decode_next from index i; no prefix longer than the longest code
\* word is in the table, so the scan of the rest of data is cut short there
RECURSIVE DecodeNextLoop(_, _, _, _)
DecodeNextLoop(d, code, longest, i) ==
    IF i >= Len(d) \/ i >= longest THEN <<"ValueError", None, d>>
    ELSE LET current_bits == SubSeq(d, 1, i + 1)
         IN  IF current_bits \in DOMAIN code
             THEN <<"none", code[current_bits], Slice(d, i + 1, Len(d))>>
             ELSE DecodeNextLoop(d, code, longest, i + 1)

\* a decode_next that reads a code word and leaves it in the data
decode_next_peek(d, code) ==
    LET r == DecodeNextLoop(d, code, LongestCode(code), 0) IN <<r[1], r[2], d>>

\* decode_next: <<exception or "none", symbol, remaining data>>
decode_next(d, code) == DecodeNextLoop(d, code, LongestCode(code), 0)

----------------------------------------------------------------------------
(* deflate.py: the alphabets and the fixed codes *)

FIXED_LENGTH_TO_CODE ==
    [i \in 0..287 |->
        IF i < 144 THEN ZeroPaddedBin(i + 48, 8)
        ELSE IF i < 256 THEN ZeroPaddedBin(i - 144 + 400, 9)
        ELSE IF i < 280 THEN ZeroPaddedBin(i - 256, 7)
        ELSE ZeroPaddedBin(i - 280 + 192, 8)]

FIXED_CODE_TO_LENGTH == InvertDict(FIXED_LENGTH_TO_CODE)

FIXED_DISTANCE_TO_CODE == [i \in 0..31 |-> ZeroPaddedBin(i, 5)]

FIXED_CODE_TO_DISTANCE == InvertDict(FIXED_DISTANCE_TO_CODE)

\* (base, extra_bits) of the length symbols 257..285
LENGTH_TABLE ==
    << <<3, 0>>, <<4, 0>>, <<5, 0>>, <<6, 0>>, <<7, 0>>, <<8, 0>>, <<9, 0>>, <<10, 0>>,
       <<11, 1>>, <<13, 1>>, <<15, 1>>, <<17, 1>>,
       <<19, 2>>, <<23, 2>>, <<27, 2>>, <<31, 2>>,
       <<35, 3>>, <<43, 3>>, <<51, 3>>, <<59, 3>>,
       <<67, 4>>, <<83, 4>>, <<99, 4>>, <<115, 4>>,
       <<131, 5>>, <<163, 5>>, <<195, 5>>, <<227, 5>>,
       <<258, 0>> >>

\* (base, extra_bits) of the distance symbols 0..29
DISTANCE_TABLE ==
    << <<1, 0>>, <<2, 0>>, <<3, 0>>, <<4, 0>>,
       <<5, 1>>, <<7, 1>>, <<9, 2>>, <<13, 2>>,
       <<17, 3>>, <<25, 3>>, <<33, 4>>, <<49, 4>>,
       <<65, 5>>, <<97, 5>>, <<129, 6>>, <<193, 6>>,
       <<257, 7>>, <<385, 7>>, <<513, 8>>, <<769, 8>>,
       <<1025, 9>>, <<1537, 9>>, <<2049, 10>>, <<3073, 10>>,
       <<4097, 11>>, <<6145, 11>>, <<8193, 12>>, <<12289, 12>>,
       <<16385, 13>>, <<24577, 13>> >>

\* the tail of decode_length / decode_distance: read extra_bits bits of d after the
\* table entry <<base, extra_bits>>; int(b'', 2) raises ValueError, a short slice parses
ReadExtra(entry, d) ==
    LET extra_bits_str == Slice(d, 0, entry[2])
    IN  IF entry[2] > 0 /\ Len(extra_bits_str) = 0 THEN <<"ValueError", 0, d>>
        ELSE <<"none",
               entry[1] + (IF entry[2] > 0 THEN BitsToInt(extra_bits_str) ELSE 0),
               Slice(d, entry[2], Len(d))>>

\* SymbolLengthAlphabet.decode for a symbol above 256, as decompress calls it
decode_length(symbol, d) ==
    IF ~(257 <= symbol /\ symbol <= 285) THEN <<"ValueError", 0, d>>
    ELSE ReadExtra(LENGTH_TABLE[symbol - 257 + 1], d)

\* DistanceAlphabet.decode
decode_distance(symbol, d) ==
    IF ~(0 <= symbol /\ symbol < Len(DISTANCE_TABLE)) THEN <<"ValueError", 0, d>>
    ELSE ReadExtra(DISTANCE_TABLE[symbol + 1], d)

----------------------------------------------------------------------------
(* deflate.py: decompress *)

\* the head of one iteration of `while data`: the header and the code tables.
\* [err, data, header, llcode, dcode]
ReadBlockHeader(d) ==
    LET header == Slice(d, 0, 2)
        rest == Slice(d, 2, Len(d))
    IN  IF header = <<1, 0>>
        THEN LET ll == IntegerDecode(rest, 286)
                 dl == IntegerDecode(ll[3], 30)
             IN  IF ll[1] # "none"
                 THEN [err |-> ll[1], data |-> rest, header |-> header,
                       llcode |-> <<>>, dcode |-> <<>>]
                 ELSE IF dl[1] # "none"
                 THEN [err |-> dl[1], data |-> ll[3], header |-> header,
                       llcode |-> <<>>, dcode |-> <<>>]
                 ELSE [err |-> "none", data |-> dl[3], header |-> header,
                       llcode |-> generate_decode_table(ll[2]),
                       dcode |-> generate_decode_table(dl[2])]
        ELSE [err |-> "none", data |-> rest, header |-> header,
              llcode |-> FIXED_CODE_TO_LENGTH, dcode |-> FIXED_CODE_TO_DISTANCE]

\* the match branch of the inner loop, after the length symbol literal_length
ReadMatch(literal_length, d, llcode, dcode) ==
    LET len == decode_length(literal_length, d)
        dsym == decode_next(len[3], dcode)
        dist == decode_distance(dsym[2], dsym[3])
        lit == decode_next(dist[3], llcode)
    IN  IF len[1] # "none"
        THEN [err |-> len[1], data |-> d, token |-> <<>>, symbol |-> literal_length, brk |-> FALSE]
        ELSE IF dsym[1] # "none"
        THEN [err |-> dsym[1], data |-> len[3], token |-> <<>>, symbol |-> literal_length, brk |-> FALSE]
        ELSE IF dist[1] # "none"
        THEN [err |-> dist[1], data |-> dsym[3], token |-> <<>>, symbol |-> literal_length, brk |-> FALSE]
        ELSE IF lit[1] # "none"
        THEN [err |-> lit[1], data |-> dist[3], token |-> <<>>, symbol |-> literal_length, brk |-> FALSE]
        ELSE IF lit[2] = 256
        THEN [err |-> "none", data |-> lit[3], token |-> <<dist[2], len[2], None>>,
              symbol |-> lit[2], brk |-> TRUE]
        ELSE [err |-> "none", data |-> lit[3], token |-> <<dist[2], len[2], lit[2]>>,
              symbol |-> lit[2], brk |-> FALSE]

\* a variant of the inner loop that ends the block when no code word can be read,
\* where decompress lets the ValueError of decode_next propagate
ReadSymbolLenient(d, llcode, dcode) ==
    LET ll == decode_next(d, llcode)
    IN  IF ll[1] # "none"
        THEN [err |-> "none", data |-> <<>>, token |-> <<>>, symbol |-> None, brk |-> TRUE]
        ELSE IF ll[2] < 256
        THEN [err |-> "none", data |-> ll[3], token |-> <<0, 0, ll[2]>>,
              symbol |-> ll[2], brk |-> FALSE]
        ELSE IF ll[2] = 256
        THEN [err |-> "none", data |-> ll[3], token |-> <<>>, symbol |-> ll[2], brk |-> TRUE]
        ELSE ReadMatch(ll[2], ll[3], llcode, dcode)

\* one iteration of the inner `while True`:
\* [err, data, token (<<>> when none is appended), symbol, brk]
ReadSymbol(d, llcode, dcode) ==
    LET ll == decode_next(d, llcode)
    IN  IF ll[1] # "none"
        THEN [err |-> ll[1], data |-> d, token |-> <<>>, symbol |-> None, brk |-> FALSE]
        ELSE IF ll[2] < 256
        THEN [err |-> "none", data |-> ll[3], token |-> <<0, 0, ll[2]>>,
              symbol |-> ll[2], brk |-> FALSE]
        ELSE IF ll[2] = 256
        THEN [err |-> "none", data |-> ll[3], token |-> <<>>, symbol |-> ll[2], brk |-> TRUE]
        ELSE ReadMatch(ll[2], ll[3], llcode, dcode)

----------------------------------------------------------------------------
(* deflate.py: the encoders of the two alphabets *)

\* the first entry of a (base, extra_bits) table with base <= value < base + 2^extra_bits,
\* as a 0-based index, or None
\* the index of the last entry whose range holds the value
TableIndexLast(table, value) ==
    LET hits == {k \in 1..Len(table) :
                    table[k][1] <= value /\ value < table[k][1] + 2 ^ table[k][2]}
    IN  IF hits = {} THEN None
        ELSE (CHOOSE k \in hits : \A k2 \in hits : k >= k2) - 1

TableIndex(table, value) ==
    LET hits == {k \in 1..Len(table) :
                    table[k][1] <= value /\ value < table[k][1] + 2 ^ table[k][2]}
    IN  IF hits = {} THEN None
        ELSE (CHOOSE k \in hits : \A k2 \in hits : k <= k2) - 1

\* SymbolLengthAlphabet.encode: <<exception or "none", symbol, extra bits>>
SymbolLengthEncode(length) ==
    LET i == TableIndex(LENGTH_TABLE, length)
    IN  IF i = None THEN <<"ValueError", None, <<>>>>
        ELSE LET entry == LENGTH_TABLE[i + 1]
             IN  <<"none", 257 + i,
                   IF entry[2] > 0 THEN ZeroPaddedBin(length - entry[1], entry[2])
                   ELSE <<>>>>

\* a variant of DistanceAlphabet.encode_distance that reports the next distance code
encode_distance_shifted(distance) ==
    LET code == TableIndex(DISTANCE_TABLE, distance)
    IN  IF code = None THEN <<"ValueError", None, 0, 0>>
        ELSE <<"none", code + 1, distance - DISTANCE_TABLE[code + 1][1],
               DISTANCE_TABLE[code + 1][2]>>

\* DistanceAlphabet.encode_distance: <<exception or "none", code, extra_value, extra_bits>>
encode_distance(distance) ==
    LET code == TableIndex(DISTANCE_TABLE, distance)
    IN  IF code = None THEN <<"ValueError", None, 0, 0>>
        ELSE <<"none", code, distance - DISTANCE_TABLE[code + 1][1],
               DISTANCE_TABLE[code + 1][2]>>

\* DistanceAlphabet.encode: <<exception or "none", distance symbol, extra bits>>;
\* bin(extra_value)[2:].zfill(extra_bits)
DistanceEncode(distance) ==
    LET e == encode_distance(distance)
    IN  IF e[1] # "none" THEN <<e[1], None, <<>>>>
        ELSE <<"none", e[2], IF e[4] > 0 THEN ZeroPaddedBin(e[3], e[4]) ELSE <<>>>>

----------------------------------------------------------------------------
(* huffman.py: the code lengths of a block *)

\* Counter(data): symbol -> number of occurrences
calculate_empirical_frequency(symbols) ==
    [x \in {symbols[k] : k \in 1..Len(symbols)} |->
        Cardinality({k \in 1..Len(symbols) : symbols[k] = x})]

\* a pop of the greatest entry
HeapMax(queue) ==
    CHOOSE e \in queue :
        \A f \in queue : e[1] > f[1] \/ (e[1] = f[1] /\ e[2][1] >= f[2][1])

\* heappop: the least entry (frequency, letters); the letter tuples of a queue are
\* disjoint, so their order is the order of their first letters
HeapMin(queue) ==
    CHOOSE e \in queue :
        \A f \in queue : e[1] < f[1] \/ (e[1] = f[1] /\ e[2][1] <= f[2][1])

\* the letters of a tuple
Letters(letters) == {letters[k] : k \in 1..Len(letters)}

\* the two `for letter in ...` loops and the heappush, after the two heappops
TreeMerge(st, first, second) ==
    <<(st[1] \ {first, second}) \cup {<<first[1] + second[1], first[2] \o second[2]>>},
      [x \in DOMAIN st[2] |->
          IF x \in Letters(first[2]) \cup Letters(second[2]) THEN 1 + st[2][x]
          ELSE st[2][x]]>>

\* the second heappop, after the first
TreePopSecond(st, first) == TreeMerge(st, first, HeapMin(st[1] \ {first}))

\* one iteration of `while len(queue) > 1` on <<queue, res>>
TreeStep(st) == TreePopSecond(st, HeapMin(st[1]))

\* at most n iterations of `while len(queue) > 1`
RECURSIVE TreeRun(_, _)
TreeRun(st, n) ==
    IF Cardinality(st[1]) <= 1 \/ n = 0 THEN st
    ELSE IF n = 1 THEN TreeStep(st)
    ELSE CHOOSE r \in {TreeRun(mid, n - (n \div 2)) :
                          mid \in {TreeRun(st, n \div 2)}} : TRUE

\* _create_huffman_tree: letter -> code length
create_huffman_tree(frequencies) ==
    IF Cardinality(DOMAIN frequencies) = 1
    THEN [x \in DOMAIN frequencies |-> 1]
    ELSE TreeRun(<<{<<frequencies[x], <<x>>>> : x \in DOMAIN frequencies},
                   [x \in DOMAIN frequencies |-> 0]>>,
                 Cardinality(DOMAIN frequencies))[2]

\* [code_lengths[letter] if letter in code_lengths else 0
\*  for letter in range(alphabet_length)]
CodeLengthList(tree, alphabet_length) ==
    [k \in 1..alphabet_length |-> IF (k - 1) \in DOMAIN tree THEN tree[k - 1] ELSE 0]

\* {letter: code for code, letter in table.items()}
CodesOfTable(table) ==
    [letter \in {table[c] : c \in DOMAIN table} |->
        CHOOSE c \in DOMAIN table : table[c] = letter]

\* the tail of create_codes, from the list code_lengths on
CodesOfLengths(code_lengths) ==
    <<code_lengths, CodesOfTable(generate_decode_table(code_lengths))>>

\* create_codes: <<code_lengths, codes>>; codes is the decode table read backwards
create_codes(symbols, alphabet_length) ==
    CodesOfLengths(CodeLengthList(
        create_huffman_tree(calculate_empirical_frequency(symbols)), alphabet_length))

----------------------------------------------------------------------------
(* helpers/block_splitter.py *)

NUM_LITERAL_OBSERVATION_TYPES == 8
NUM_OBSERVATION_TYPES == 10
NUM_OBSERVATIONS_PER_BLOCK_CHECK == 512

\* a splitter content with blocks half as long
MIN_BLOCK_LENGTH_HALF == 1000 \div 2

MIN_BLOCK_LENGTH == 1000

\* the difference with its sign
Signed(x) == x

Abs(x) == IF x < 0 THEN -x ELSE x

\* BlockSplitter.__init__ and reset
NewSplitter ==
    [observations |-> [t \in 0..(NUM_OBSERVATION_TYPES - 1) |-> 0],
     new_observations |-> [t \in 0..(NUM_OBSERVATION_TYPES - 1) |-> 0],
     num_observations |-> 0,
     num_new_observations |-> 0]

\* an observation that is put in the histogram and not counted
ObserveUncounted(sp, obs_type) == [sp EXCEPT !.new_observations[obs_type] = @ + 1]

\* the tail shared by observe_literal and observe_match
Observe(sp, obs_type) ==
    [sp EXCEPT !.new_observations[obs_type] = @ + 1, !.num_new_observations = @ + 1]

\* ((literal >> 5) & 0x6) | (literal & 1) for a byte
observe_literal(sp, literal) ==
    Observe(sp, ((literal \div 32) - ((literal \div 32) % 2)) + (literal % 2))

observe_match(sp, length) ==
    Observe(sp, NUM_LITERAL_OBSERVATION_TYPES + (IF length >= 9 THEN 1 ELSE 0))

\* a merge that leaves the new observations where they are
merge_keeping_new(sp) ==
    [sp EXCEPT !.observations = [t \in 0..(NUM_OBSERVATION_TYPES - 1) |->
                                     sp.observations[t] + sp.new_observations[t]],
               !.num_observations = @ + sp.num_new_observations]

merge_new_observations(sp) ==
    [observations |-> [t \in 0..(NUM_OBSERVATION_TYPES - 1) |->
                          sp.observations[t] + sp.new_observations[t]],
     new_observations |-> [t \in 0..(NUM_OBSERVATION_TYPES - 1) |-> 0],
     num_observations |-> sp.num_observations + sp.num_new_observations,
     num_new_observations |-> 0]

RECURSIVE SumDelta(_, _)
SumDelta(sp, t) ==
    IF t >= NUM_OBSERVATION_TYPES THEN 0
    ELSE Abs(sp.new_observations[t] * sp.num_observations
             - sp.observations[t] * sp.num_new_observations) + SumDelta(sp, t + 1)

\* a splitter that ends a block at every hundredth token, whatever it has observed
should_end_block_eager(sp, block_length) == <<block_length >= 100, sp>>

\* should_end_block: <<result, the splitter afterwards>>
should_end_block(sp, block_length) ==
    IF sp.num_new_observations < NUM_OBSERVATIONS_PER_BLOCK_CHECK
       \/ block_length < MIN_BLOCK_LENGTH
    THEN <<FALSE, sp>>
    ELSE IF sp.num_observations = 0
    THEN <<FALSE, merge_new_observations(sp)>>
    ELSE LET total_delta == SumDelta(sp, 0)
             num_items == sp.num_observations + sp.num_new_observations
             cutoff0 == (sp.num_new_observations * 200 * sp.num_observations) \div 512
             cutoff == IF block_length < 10000 /\ num_items < 8192
                       THEN cutoff0 + ((cutoff0 * (8192 - num_items)) \div 8192)
                       ELSE cutoff0
             length_penalty == (block_length \div 4096) * sp.num_observations
         IN  IF total_delta + length_penalty >= cutoff
             THEN <<TRUE, sp>>
             ELSE <<FALSE, merge_new_observations(sp)>>

----------------------------------------------------------------------------
(* deflate.py: compress *)

\* one iteration of `while pos < len(tokens)` on
\* [splitter, blocks, current_block, pos]
SplitStep(toks, st) ==
    LET token == toks[st.pos + 1]
        observed == IF token[1] = 0 THEN observe_literal(st.splitter, token[3])
                    ELSE observe_match(st.splitter, token[2])
        current == Append(st.current_block, token)
        decision == should_end_block(observed, Len(current))
    IN  IF decision[1]
        THEN [splitter |-> NewSplitter, blocks |-> Append(st.blocks, current),
              current_block |-> <<>>, pos |-> st.pos + 1]
        ELSE [splitter |-> decision[2], blocks |-> st.blocks,
              current_block |-> current, pos |-> st.pos + 1]

\* at most n iterations of `while pos < len(tokens)`
RECURSIVE SplitRun(_, _, _)
SplitRun(toks, st, n) ==
    IF st.pos >= Len(toks) \/ n = 0 THEN st
    ELSE IF n = 1 THEN SplitStep(toks, st)
    ELSE CHOOSE r \in {SplitRun(toks, mid, n - (n \div 2)) :
                          mid \in {SplitRun(toks, st, n \div 2)}} : TRUE

\* the list blocks of compress, the last block included
SplitTokens(toks) ==
    LET st == SplitRun(toks, [splitter |-> NewSplitter, blocks |-> <<>>,
                              current_block |-> <<>>, pos |-> 0], Len(toks))
    IN  IF Len(st.current_block) > 0 THEN Append(st.blocks, st.current_block)
        ELSE st.blocks

\* a pair is <<literal/length symbol, extra bits, distance symbol, extra bits>>; the
\* extra values that are None in the source are written as the empty bit string,
\* which is what they add to a frame

\* the pairs one token appends: [err, pairs]
PairsOfToken(token) ==
    LET l == SymbolLengthEncode(token[2])
        d == DistanceEncode(token[1])
        literal == IF token[3] # None THEN << <<token[3], <<>>, None, <<>>>> >> ELSE <<>>
    IN  IF token[1] = 0 THEN [err |-> "none", pairs |-> literal]
        ELSE IF l[1] # "none" THEN [err |-> l[1], pairs |-> <<>>]
        ELSE IF d[1] # "none" THEN [err |-> d[1], pairs |-> <<>>]
        ELSE [err |-> "none", pairs |-> << <<l[2], l[3], d[2], d[3]>> >> \o literal]

\* the pairs of block_tokens[lo..hi]: [err, pairs]
RECURSIVE PairsRange(_, _, _)
PairsRange(block_tokens, lo, hi) ==
    IF lo > hi THEN [err |-> "none", pairs |-> <<>>]
    ELSE IF lo = hi THEN PairsOfToken(block_tokens[lo])
    ELSE LET left == PairsRange(block_tokens, lo, (lo + hi) \div 2)
             right == PairsRange(block_tokens, ((lo + hi) \div 2) + 1, hi)
         IN  IF left.err # "none" THEN left
             ELSE IF right.err # "none" THEN right
             ELSE [err |-> "none", pairs |-> left.pairs \o right.pairs]

\* literal_length_distance_pairs.append((256, None, None, None)), after the loop
\* with the result r
AppendEndOfBlock(r) ==
    IF r.err # "none" THEN r
    ELSE [err |-> "none", pairs |-> Append(r.pairs, <<256, <<>>, None, <<>>>>)]

\* literal_length_distance_pairs, with the end-of-block pair: [err, pairs]
literal_length_distance_pairs(block_tokens) ==
    AppendEndOfBlock(PairsRange(block_tokens, 1, Len(block_tokens)))

\* what one pair adds to a frame written with the codes llcode and dcode; a symbol
\* without a code word is a KeyError
EmitPair(pair, llcode, dcode) ==
    IF pair[1] \notin DOMAIN llcode THEN [err |-> "KeyError", bits |-> <<>>]
    ELSE IF pair[3] # None /\ pair[3] \notin DOMAIN dcode
    THEN [err |-> "KeyError", bits |-> <<>>]
    ELSE [err |-> "none",
          bits |-> llcode[pair[1]] \o pair[2]
                   \o (IF pair[3] # None THEN dcode[pair[3]] \o pair[4] ELSE <<>>)]

\* what pairs[lo..hi] add to a frame: [err, bits]
RECURSIVE EmitRange(_, _, _, _, _)
EmitRange(pairs, llcode, dcode, lo, hi) ==
    IF lo > hi THEN [err |-> "none", bits |-> <<>>]
    ELSE IF lo = hi THEN EmitPair(pairs[lo], llcode, dcode)
    ELSE LET left == EmitRange(pairs, llcode, dcode, lo, (lo + hi) \div 2)
             right == EmitRange(pairs, llcode, dcode, ((lo + hi) \div 2) + 1, hi)
         IN  IF left.err # "none" THEN left
             ELSE IF right.err # "none" THEN right
             ELSE [err |-> "none", bits |-> left.bits \o right.bits]

\* [t[k] for t in pairs], with k = 1, or k = 3 and the pairs that have a distance
Column(pairs, k) ==
    LET RECURSIVE Pick(_, _)
        Pick(lo, hi) ==
            IF lo > hi THEN <<>>
            ELSE IF lo = hi
            THEN (IF k = 3 /\ pairs[lo][3] = None THEN <<>> ELSE <<pairs[lo][k]>>)
            ELSE Pick(lo, (lo + hi) \div 2) \o Pick(((lo + hi) \div 2) + 1, hi)
    IN  Pick(1, Len(pairs))

\* res_dynamic and res_fixed, from the code lengths written first and the two
\* emissions: [err, res_dynamic, res_fixed]
JoinFrames(trees, dynamic, fixed) ==
    IF dynamic.err # "none"
    THEN [err |-> dynamic.err, res_dynamic |-> <<>>, res_fixed |-> <<>>]
    ELSE IF fixed.err # "none"
    THEN [err |-> fixed.err, res_dynamic |-> trees \o dynamic.bits, res_fixed |-> <<>>]
    ELSE [err |-> "none", res_dynamic |-> trees \o dynamic.bits, res_fixed |-> fixed.bits]

\* the two frames of a block, from its pairs and the results ll and ds of create_codes
FramesWithCodes(pairs, ll, ds) ==
    JoinFrames(IntegerEncode(ll[1] \o ds[1]),
               EmitRange(pairs, ll[2], ds[2], 1, Len(pairs)),
               EmitRange(pairs, FIXED_LENGTH_TO_CODE, FIXED_DISTANCE_TO_CODE, 1, Len(pairs)))

\* the two frames of a block, from the result p of its pair loop
FramesOfPairs(p) ==
    IF p.err # "none" THEN [err |-> p.err, res_dynamic |-> <<>>, res_fixed |-> <<>>]
    ELSE FramesWithCodes(p.pairs, create_codes(Column(p.pairs, 1), 286),
                         create_codes(Column(p.pairs, 3), 30))

\* the body of `for block_tokens in blocks` up to the comparison:
\* [err, res_dynamic, res_fixed]
FrameBlockTokens(block_tokens) == FramesOfPairs(literal_length_distance_pairs(block_tokens))

\* a variant of the comparison that keeps the fixed frame when the two are equally long
ChooseFramePreferFixed(dynamic, fixed) ==
    IF Len(dynamic) >= Len(fixed) THEN <<0, 1>> \o fixed ELSE <<1, 0>> \o dynamic

\* the header and the frame a block adds to res
ChooseFrame(dynamic, fixed) ==
    IF Len(dynamic) > Len(fixed) THEN <<0, 1>> \o fixed ELSE <<1, 0>> \o dynamic

----------------------------------------------------------------------------
(* Actions *)

\* LZ77Compressor.encode, one iteration of `while i < n`
LZEncodeStep ==
    /\ pc = "lz_encode"
    /\ cur < Len(data)
    /\ LET token == EncodeToken(data, cur)
       IN  /\ tokens' = Append(tokens, token)
           /\ cur' = cur + EncodeAdvance(token)
    /\ UNCHANGED <<prog, pc, err, data, cmpvars, packed, bits, decvars, dtokens, output, intvars, callvars>>

\* one iteration of `while i < n` of encode on <<i, tokens>>
EncodeStep(d, st) ==
    LET token == EncodeToken(d, st[1])
    IN  <<st[1] + EncodeAdvance(token), Append(st[2], token)>>

\* at most n iterations of `while i < n`
RECURSIVE EncodeRun(_, _, _)
EncodeRun(d, st, n) ==
    IF st[1] >= Len(d) \/ n = 0 THEN st
    ELSE IF n = 1 THEN EncodeStep(d, st)
    ELSE CHOOSE r \in {EncodeRun(d, mid, n - (n \div 2)) :
                          mid \in {EncodeRun(d, st, n \div 2)}} : TRUE

\* compress: tokens = LZ77Compressor.encode(data), the call as one step
LZEncode ==
    /\ prog \in {"deflate", "split_blocks"}
    /\ pc = "lz_encode"
    /\ \E st \in {EncodeRun(data, <<0, <<>>>>, Len(data))} :
           cur' = st[1] /\ tokens' = st[2]
    /\ pc' = "split"
    /\ UNCHANGED <<prog, err, data, cmpvars, packed, bits, decvars, dtokens, output,
                   intvars, callvars>>

\* LZ77Compressor.encode returns its tokens
LZEncodeReturn ==
    /\ pc = "lz_encode"
    /\ cur >= Len(data)
    /\ IF prog = "deflate"
       THEN pc' = "split" /\ UNCHANGED dtokens
       ELSE pc' = "lz_decode" /\ dtokens' = tokens
    /\ UNCHANGED <<prog, err, encvars, cmpvars, packed, bits, decvars, output, intvars, callvars>>

\* compress: the block splitting loop and `if current_block`
SplitBlocks ==
    /\ pc = "split"
    /\ blocks' = SplitTokens(tokens)
    /\ pc' = "frame"
    /\ UNCHANGED <<prog, err, encvars, res, res_dynamic, res_fixed, packed, bits, decvars,
                   dtokens, output, intvars, callvars>>

\* compress: the assignments of one iteration of `for block_tokens in blocks`, from
\* the two frames f of the block
StoreFrames(f) ==
    /\ err' = f.err
    /\ res_dynamic' = f.res_dynamic
    /\ res_fixed' = f.res_fixed
    /\ res' = IF f.err = "none" THEN res \o ChooseFrame(f.res_dynamic, f.res_fixed)
              ELSE res
    /\ pc' = IF f.err = "none" THEN "frame" ELSE "failed"

\* compress: one iteration of `for block_tokens in blocks`
FrameBlock ==
    /\ pc = "frame"
    /\ Len(blocks) > 0
    /\ StoreFrames(FrameBlockTokens(blocks[1]))
    /\ blocks' = Tail(blocks)
    /\ UNCHANGED <<prog, encvars, packed, bits, decvars, dtokens, output, intvars, callvars>>

\* compress: `return binary_string_to_bytes(res)`; the bytes go to decompress
Pack ==
    /\ pc = "frame"
    /\ Len(blocks) = 0
    /\ packed' = binary_string_to_bytes(res)
    /\ pc' = "unpack"
    /\ UNCHANGED <<prog, err, encvars, cmpvars, bits, decvars, dtokens, output, intvars, callvars>>

\* LZ77Compressor.decode
LZDecode ==
    /\ pc = "lz_decode"
    /\ \E r \in {LZ77Decode(dtokens)} :
           /\ err' = r[1]
           /\ output' = IF r[1] = "none" THEN r[2] ELSE <<>>
           /\ pc' = IF r[1] = "none" THEN "returned" ELSE "crashed"
    /\ UNCHANGED <<prog, encvars, cmpvars, packed, bits, decvars, dtokens, intvars, callvars>>

\* IntegerCompressor.encode
IntEncode ==
    /\ pc = "int_encode"
    /\ bits' = IntegerEncode(intvec)
    /\ pc' = "int_decode"
    /\ UNCHANGED <<prog, err, encvars, cmpvars, packed, decvars, dtokens, output, intvars, callvars>>

\* IntegerCompressor.decode(data, length) with length = len(v)
IntDecode ==
    /\ pc = "int_decode"
    /\ LET r == IntegerDecode(bits, Len(intvec))
       IN  /\ err' = r[1]
           /\ numbers' = IF r[1] = "none" THEN r[2] ELSE <<>>
           /\ bits' = IF r[1] = "none" THEN r[3] ELSE bits
           /\ pc' = IF r[1] = "none" THEN "returned" ELSE "failed"
    /\ UNCHANGED <<prog, encvars, cmpvars, packed, decvars, dtokens, output, intvec, callvars>>

\* bytes_to_binary_string, the first statement of decompress
Unpack ==
    /\ pc = "unpack"
    /\ bits' = bytes_to_binary_string(packed)
    /\ pc' = IF prog \in {"bitsource", "bitsink"} THEN "returned" ELSE "block"
    /\ UNCHANGED <<prog, err, encvars, cmpvars, packed, decvars, dtokens, output, intvars, callvars>>

\* decompress: the test of `while data` and, inside the loop, the block header
BlockStart ==
    /\ pc = "block"
    /\ IF Len(bits) = 0
       THEN /\ pc' = "lz_decode"
            /\ UNCHANGED <<err, bits, decvars>>
       ELSE \E h \in {ReadBlockHeader(bits)} :
                /\ err' = h.err
                /\ bits' = h.data
                /\ block_header' = h.header
                /\ length_literal_code' = h.llcode
                /\ distance_code' = h.dcode
                /\ UNCHANGED last_symbol
                /\ pc' = IF h.err = "none" THEN "symbol" ELSE "failed"
    /\ UNCHANGED <<prog, encvars, cmpvars, packed, dtokens, output, intvars, callvars>>

\* decompress: one iteration of the inner `while True`
BlockSymbol ==
    /\ pc = "symbol"
    /\ \E r \in {ReadSymbol(bits, length_literal_code, distance_code)} :
           /\ err' = r.err
           /\ bits' = r.data
           /\ last_symbol' = r.symbol
           /\ dtokens' = IF r.err = "none" /\ r.token # <<>>
                         THEN Append(dtokens, r.token) ELSE dtokens
           /\ pc' = IF r.err # "none" THEN "failed"
                    ELSE IF r.brk THEN "block" ELSE "symbol"
    /\ UNCHANGED <<prog, encvars, cmpvars, packed, block_header, length_literal_code,
                   distance_code, output, intvars, callvars>>

----------------------------------------------------------------------------
(* decode(encode(x)) of the LZ77 matcher over every short buffer *)

\* nothing has run yet
FreshRun ==
    /\ err = "none"
    /\ cur = 0
    /\ tokens = <<>>
    /\ blocks = <<>>
    /\ res_dynamic = <<>>
    /\ res_fixed = <<>>
    /\ bits = <<>>
    /\ block_header = <<>>
    /\ length_literal_code = <<>>
    /\ distance_code = <<>>
    /\ last_symbol = None
    /\ dtokens = <<>>
    /\ output = <<>>
    /\ numbers = <<>>

\* and no function has been called on its own
Fresh == FreshRun /\ res = <<>> /\ arg = <<>> /\ ret = <<>>

InitLZ ==
    /\ prog = "lz77"
    /\ pc = "lz_encode"
    /\ data \in ShortBuffers \cup RepetitiveBuffers \cup PatternBuffers
                \cup {FoxTimes(WindowRepeats)}
    /\ packed = <<>>
    /\ intvec = <<>>
    /\ Fresh

NextLZ == LZEncodeStep \/ LZEncodeReturn \/ LZDecode

SpecLZ == InitLZ /\ [][NextLZ]_vars

----------------------------------------------------------------------------
(* decode(encode(v), len(v)) of the integer codec *)

InitInt ==
    /\ prog = "integer"
    /\ pc = "int_encode"
    /\ intvec \in SeqsUpTo(0..MaxInt, MaxVecLen)
    /\ data = <<>>
    /\ packed = <<>>
    /\ Fresh

NextInt == IntEncode \/ IntDecode

SpecInt == InitInt /\ [][NextInt]_vars

----------------------------------------------------------------------------
(* the bit source on arbitrary bytes *)

InitBits ==
    /\ prog = "bitsource"
    /\ pc = "unpack"
    /\ packed \in SeqsUpTo(SampleBytes, MaxBytes)
    /\ data = <<>>
    /\ intvec = <<>>
    /\ Fresh

NextBits == Unpack

SpecBits == InitBits /\ [][NextBits]_vars

----------------------------------------------------------------------------
(* decompress on arbitrary bit streams: well-formed, malformed and truncated *)

\* a length symbol with its extra bits and a distance symbol with its extra bits,
\* in the fixed codes
FixedMatch(length_symbol, length_extra, distance_symbol, distance_extra) ==
    FIXED_LENGTH_TO_CODE[length_symbol] \o length_extra
    \o FIXED_DISTANCE_TO_CODE[distance_symbol] \o distance_extra

\* code lengths of a small dynamic block: literal 97, end-of-block and length symbol
\* 257; distance symbols 0 and 1
SampleLengths ==
    [k \in 1..316 |-> IF k = 97 + 1 THEN 1
                       ELSE IF k \in {256 + 1, 257 + 1} THEN 2
                       ELSE IF k \in {286 + 1, 286 + 2} THEN 1
                       ELSE 0]

StreamChunks ==
    { <<0, 0>>, <<0, 1>>, <<1, 1>>,
      <<1, 0>> \o IntegerEncode(SampleLengths),
      FIXED_LENGTH_TO_CODE[97],
      FIXED_LENGTH_TO_CODE[256],
      FixedMatch(257, <<>>, 0, <<>>),
      FixedMatch(257, <<>>, 1, <<>>),
      FixedMatch(269, <<0, 1>>, 0, <<>>) }

RECURSIVE Flatten(_)
Flatten(chunks) ==
    IF Len(chunks) = 0 THEN <<>> ELSE chunks[1] \o Flatten(Tail(chunks))

BitStreams ==
    {SubSeq(Flatten(cs), 1, Max(0, Len(Flatten(cs)) - c)) :
        cs \in SeqsUpTo(StreamChunks, MaxChunks), c \in Cuts}

InitDecomp ==
    /\ prog = "decompress"
    /\ pc = "unpack"
    /\ packed \in {binary_string_to_bytes(b) : b \in BitStreams}
    /\ data = <<>>
    /\ intvec = <<>>
    /\ Fresh

NextDecomp == Unpack \/ BlockStart \/ BlockSymbol \/ LZDecode

SpecDecomp == InitDecomp /\ [][NextDecomp]_vars

\* decompress has a statement to run: every action of NextDecomp is guarded by its
\* value of pc alone and changes pc or bits, so this is ENABLED <<NextDecomp>>_vars
Running == pc \in {"unpack", "block", "symbol", "lz_decode"}

\* the interpreter runs decompress without pause, a statement that can run does run:
\* WF_vars(NextDecomp), with ENABLED <<NextDecomp>>_vars written as Running
SpecDecompFair == SpecDecomp /\ ([]<>(~Running) \/ []<><<NextDecomp>>_vars)

----------------------------------------------------------------------------
(* decompress(compress(x)) *)

\* x: the short buffers, the periodic buffers w w w, and long runs of the bytes 255
\* and 254, whose literals take 9 bits each in the fixed code, so that the dynamic
\* frame of a block becomes as short as its fixed frame
PeriodicBuffers == {w \o w \o w : w \in [1..MaxWord -> ByteAlphabet]}

LongBuffers ==
    {[k \in 1..(LongRun + a) |-> 255] \o [k \in 1..b |-> 254] : a \in 0..1, b \in 1..2}

InitDeflate ==
    /\ prog = "deflate"
    /\ pc = "lz_encode"
    /\ data \in SeqsUpTo(ByteAlphabet, MaxWord) \cup PeriodicBuffers \cup LongBuffers
    /\ packed = <<>>
    /\ intvec = <<>>
    /\ Fresh

NextDeflate ==
    \/ LZEncodeStep
    \/ LZEncodeReturn
    \/ SplitBlocks
    \/ FrameBlock
    \/ Pack
    \/ Unpack
    \/ BlockStart
    \/ BlockSymbol
    \/ LZDecode

SpecDeflate == InitDeflate /\ [][NextDeflate]_vars

\* the number of repetitions of the text in the large file
FoxRepeats == 1000

\* compress and decompress of the large file
InitLarge ==
    /\ prog = "deflate"
    /\ pc = "lz_encode"
    /\ data = FoxTimes(FoxRepeats)
    /\ packed = <<>>
    /\ intvec = <<>>
    /\ Fresh

NextLarge ==
    \/ LZEncode
    \/ SplitBlocks
    \/ FrameBlock
    \/ Pack
    \/ Unpack
    \/ BlockStart
    \/ BlockSymbol
    \/ LZDecode

SpecLarge == InitLarge /\ [][NextLarge]_vars

----------------------------------------------------------------------------
(* Functions called on their own *)

\* codes, code_lengths = create_codes(data, alphabet_length)
CallCreateCodes ==
    /\ prog = "create_codes"
    /\ pc = "call"
    /\ ret' = create_codes(arg.data, arg.alphabet_length)
    /\ pc' = "encode"
    /\ UNCHANGED <<prog, err, encvars, cmpvars, packed, bits, decvars, dtokens, output,
                   intvars, arg>>

\* codes[letter] for a letter of data, followed by the bits of what comes next
EncodeLetter ==
    /\ pc = "encode"
    /\ \E k \in 1..Len(arg.data), rest \in Rests :
        LET letter == arg.data[k]
        IN  /\ arg' = [data |-> arg.data, alphabet_length |-> arg.alphabet_length,
                       letter |-> letter, rest |-> rest]
            /\ IF letter \in DOMAIN ret[2]
               THEN bits' = ret[2][letter] \o rest /\ err' = "none" /\ pc' = "decode_next"
               ELSE bits' = bits /\ err' = "KeyError" /\ pc' = "failed"
    /\ UNCHANGED <<prog, encvars, cmpvars, packed, decvars, dtokens, output, intvars, ret>>

\* decode_next(data, generate_decode_table(code_lengths))
CallDecodeNext ==
    /\ pc = "decode_next"
    /\ LET r == decode_next(bits, generate_decode_table(ret[1]))
       IN  /\ err' = r[1]
           /\ last_symbol' = r[2]
           /\ bits' = r[3]
           /\ pc' = IF r[1] = "none" THEN "returned" ELSE "failed"
    /\ UNCHANGED <<prog, encvars, cmpvars, packed, block_header, length_literal_code,
                   distance_code, dtokens, output, intvars, callvars>>

\* generate_dynamic_huffman_codes(bit_lengths)
CallGenerateCodes ==
    /\ prog = "generate_codes"
    /\ pc = "call"
    /\ ret' = generate_dynamic_huffman_codes(arg)
    /\ pc' = "returned"
    /\ UNCHANGED <<prog, err, encvars, cmpvars, packed, bits, decvars, dtokens, output,
                   intvars, arg>>

\* SymbolLengthAlphabet.encode(length) or DistanceAlphabet.encode(distance); the extra
\* bits are then followed by the bits of what comes next
CallAlphabetEncode ==
    /\ prog \in {"length", "distance"}
    /\ pc = "call"
    /\ ret' = IF prog = "length" THEN SymbolLengthEncode(arg.value)
              ELSE DistanceEncode(arg.value)
    /\ err' = ret'[1]
    /\ last_symbol' = ret'[2]
    /\ bits' = ret'[3] \o arg.rest
    /\ pc' = IF ret'[1] = "none" THEN "decode" ELSE "failed"
    /\ UNCHANGED <<prog, encvars, cmpvars, packed, block_header, length_literal_code,
                   distance_code, dtokens, output, intvars, arg>>

\* SymbolLengthAlphabet.decode_length(symbol, data) or
\* DistanceAlphabet.decode_distance(symbol, data)
CallAlphabetDecode ==
    /\ prog \in {"length", "distance"}
    /\ pc = "decode"
    /\ ret' = IF prog = "length" THEN decode_length(last_symbol, bits)
              ELSE decode_distance(last_symbol, bits)
    /\ err' = ret'[1]
    /\ pc' = IF ret'[1] = "none" THEN "returned" ELSE "failed"
    /\ UNCHANGED <<prog, encvars, cmpvars, packed, bits, decvars, dtokens, output,
                   intvars, arg>>

\* SymbolLengthAlphabet.decode_length(symbol, data) on any symbol and any bits
CallDecodeLength ==
    /\ prog = "decode_length"
    /\ pc = "call"
    /\ ret' = decode_length(arg.symbol, arg.data)
    /\ err' = ret'[1]
    /\ pc' = IF ret'[1] = "none" THEN "returned" ELSE "failed"
    /\ UNCHANGED <<prog, encvars, cmpvars, packed, bits, decvars, dtokens, output,
                   intvars, arg>>

\* should_end_block(block_length) on a splitter
CallShouldEndBlock ==
    /\ prog = "should_end_block"
    /\ pc = "call"
    /\ ret' = should_end_block(arg.sp, arg.block_length)
    /\ pc' = "returned"
    /\ UNCHANGED <<prog, err, encvars, cmpvars, packed, bits, decvars, dtokens, output,
                   intvars, arg>>

\* one more call on the splitter arg.self; ret is <<method, returned value>>
SplitterCall(method, value, self) ==
    /\ prog = "splitter"
    /\ arg.calls < MaxCalls
    /\ arg' = [self |-> self, calls |-> arg.calls + 1]
    /\ ret' = <<method, value>>
    /\ UNCHANGED <<prog, pc, err, encvars, cmpvars, packed, bits, decvars, dtokens, output,
                   intvars>>

SplitterObserveLiteral ==
    \E literal \in {0, 97, 255} :
        SplitterCall("observe_literal", None, observe_literal(arg.self, literal))

SplitterObserveMatch ==
    \E length \in {3, 9} :
        SplitterCall("observe_match", None, observe_match(arg.self, length))

SplitterShouldEndBlock ==
    /\ prog = "splitter"
    /\ \E block_length \in {999, 1000, 4096} :
           \E r \in {should_end_block(arg.self, block_length)} :
               SplitterCall("should_end_block", r[1], r[2])

SplitterMerge ==
    SplitterCall("merge_new_observations", None, merge_new_observations(arg.self))

SplitterReset == SplitterCall("reset", None, NewSplitter)

\* a histogram of `total` observations, half of them of type a, the others of type b
Histogram(total, a, b) ==
    [t \in 0..(NUM_OBSERVATION_TYPES - 1) |->
        (IF t = a THEN total \div 2 ELSE 0) + (IF t = b THEN total - (total \div 2) ELSE 0)]

\* splitters with merged batches of at least 512 observations, or none, and with new
\* observations below, at and above the number that triggers a check
SplitterStates ==
    {[observations |-> Histogram(o, oa, ob),
      new_observations |-> Histogram(n, na, nb),
      num_observations |-> o,
      num_new_observations |-> n] :
        o \in {0, 512, 1024, 1200, 8192}, n \in {0, 511, 512, 600},
        oa \in {0, 5, 8}, ob \in {0, 8, 9}, na \in {0, 5, 8}, nb \in {0, 8, 9}}

\* the values next to and inside the range a table covers
TableRange(table) ==
    (table[1][1] - 1)..(table[Len(table)][1] + 2 ^ table[Len(table)][2])

\* the list in which the letter x occurs f[x] times, for the letters up to x
RECURSIVE SymbolsOf(_, _)
SymbolsOf(f, x) == IF x < 0 THEN <<>> ELSE SymbolsOf(f, x - 1) \o [k \in 1..f[x] |-> x]

\* the non-empty symbol lists: every multiset of letters, and every order of a short list
SymbolLists ==
    ({SymbolsOf(f, NumLetters - 1) : f \in [0..(NumLetters - 1) -> 0..MaxCount]}
        \cup SeqsUpTo(0..2, MaxCount)) \ {<<>>}

InitCalls ==
    /\ \/ /\ prog = "create_codes"
          /\ pc = "call"
          /\ arg \in {[data |-> d, alphabet_length |-> NumLetters] : d \in SymbolLists}
          /\ res = <<>>
       \/ /\ prog = "generate_codes"
          /\ pc = "call"
          /\ arg \in SeqsUpTo(0..MaxBits, MaxLengths)
          /\ res = <<>>
       \/ /\ prog = "length"
          /\ pc = "call"
          /\ arg \in {[value |-> v, rest |-> r] : v \in TableRange(LENGTH_TABLE), r \in Rests}
          /\ res = <<>>
       \/ /\ prog = "distance"
          /\ pc = "call"
          /\ arg \in {[value |-> v, rest |-> r] : v \in TableRange(DISTANCE_TABLE), r \in Rests}
          /\ res = <<>>
       \/ /\ prog = "decode_length"
          /\ pc = "call"
          /\ arg \in {[symbol |-> sym, data |-> d] :
                         sym \in 256..(257 + Len(LENGTH_TABLE)),
                         d \in SeqsUpTo({0, 1}, MaxBits + 2)}
          /\ res = <<>>
       \/ /\ prog = "should_end_block"
          /\ pc = "call"
          /\ arg \in {[sp |-> sp, block_length |-> n] :
                         sp \in SplitterStates,
                         n \in {0, 999, 1000, 4096, 9999, 10000, 20000}}
          /\ res = <<>>
       \/ /\ prog = "splitter"
          /\ pc = "call"
          /\ arg \in {[self |-> sp, calls |-> 0] :
                         sp \in {NewSplitter,
                                 [NewSplitter EXCEPT !.new_observations = Histogram(511, 0, 0),
                                                     !.num_new_observations = 511],
                                 [observations |-> Histogram(1024, 0, 0),
                                  new_observations |-> Histogram(511, 0, 8),
                                  num_observations |-> 1024,
                                  num_new_observations |-> 511]}}
          /\ res = <<>>
       \/ /\ prog = "split_blocks"
          /\ pc = "lz_encode"
          /\ arg = <<>>
          /\ res = <<>>
       \/ /\ prog = "bitsink"
          /\ pc = "frame"
          /\ arg = <<>>
          /\ res \in SeqsUpTo({0, 1}, MaxBitString)
    /\ ret = <<>>
    /\ IF prog = "split_blocks"
       THEN data \in {SwitchBuffer(1200, 1800), SwitchBuffer(2600, 1500)}
       ELSE data = <<>>
    /\ packed = <<>>
    /\ intvec = <<>>
    /\ FreshRun

NextCalls ==
    \/ CallCreateCodes
    \/ EncodeLetter
    \/ CallDecodeNext
    \/ CallGenerateCodes
    \/ CallAlphabetEncode
    \/ CallAlphabetDecode
    \/ CallDecodeLength
    \/ CallShouldEndBlock
    \/ SplitterObserveLiteral
    \/ SplitterObserveMatch
    \/ SplitterShouldEndBlock
    \/ SplitterMerge
    \/ SplitterReset
    \/ LZEncode
    \/ SplitBlocks
    \/ Pack
    \/ Unpack

SpecCalls == InitCalls /\ [][NextCalls]_vars

----------------------------------------------------------------------------
(* Properties of the LZ77 matcher *)

\* the cursor at which the k-th token of toks was emitted: what the k - 1 tokens
\* before it advanced the cursor by, summed half by half
RECURSIVE TokenCursor(_, _)
TokenCursor(toks, k) ==
    IF k = 1 THEN 0
    ELSE IF k = 2 THEN EncodeAdvance(toks[1])
    ELSE TokenCursor(toks, ((k - 1) \div 2) + 1)
         + TokenCursor(SubSeq(toks, ((k - 1) \div 2) + 1, k - 1), k - ((k - 1) \div 2))

SearchAt(i) == Slice(data, Max(0, i - window_size), i)
LookAt(i) == Slice(data, i, i + lookahead_size)

\* look[:l] == search[j:j+l], the occurrence lying inside search
OccursAt(search, look, j, l) ==
    /\ j + l <= Len(search)
    /\ l <= Len(look)
    /\ SubSeq(search, j + 1, j + l) = SubSeq(look, 1, l)

\* the largest l such that look[:l] occurs inside search
BestLen(search, look) ==
    LET S == {l \in 0..Len(look) : \E j \in 0..(Len(search) - 1) : OccursAt(search, look, j, l)}
    IN  IF S = {} THEN 0 ELSE CHOOSE l \in S : \A l2 \in S : l2 <= l

\* C2: LZ77Compressor.decode(LZ77Compressor.encode(x)) == x for every byte buffer x:
\* decode never fails on the tokens of encode, and what it returns is the input.
LZRoundTrip ==
    prog = "lz77" =>
        /\ pc # "crashed"
        /\ (pc = "returned" => output = data)

\* a buffer rebuilt from a back-reference with a trailing literal and one without
LZRoundTripWitness ==
    /\ prog = "lz77"
    /\ pc = "returned"
    /\ output = data
    /\ \E k \in 1..Len(tokens) : tokens[k][1] > 0 /\ tokens[k][3] # None
    /\ \E k \in 1..Len(tokens) : tokens[k][1] > 0 /\ tokens[k][3] = None

\* C9: at every cursor i the token is a match of the largest length l >= 3 such that
\* look[:l] occurs inside search (occurrences ending at the last byte of search
\* included) when |look| >= 3 and such an l exists, and the literal (0,0,data[i])
\* otherwise.
LZLongestMatch ==
    prog = "lz77" =>
        \A k \in 1..Len(tokens) :
            LET i == TokenCursor(tokens, k)
                best == BestLen(SearchAt(i), LookAt(i))
            IN  IF Len(LookAt(i)) >= min_match_length /\ best >= min_match_length
                THEN tokens[k][1] > 0 /\ tokens[k][2] = best
                ELSE tokens[k] = <<0, 0, data[i + 1]>>

\* C10: an emitted match of length l at distance d starts at j = |search| - d, where
\* look[:l] occurs, and at no j2 < j does look[:l] occur inside search.
LZEarliestMatch ==
    prog = "lz77" =>
        \A k \in 1..Len(tokens) :
            tokens[k][1] > 0 =>
                LET i == TokenCursor(tokens, k)
                    j == Len(SearchAt(i)) - tokens[k][1]
                IN  /\ j >= 0
                    /\ OccursAt(SearchAt(i), LookAt(i), j, tokens[k][2])
                    /\ \A j2 \in 0..(j - 1) :
                           ~OccursAt(SearchAt(i), LookAt(i), j2, tokens[k][2])

\* a match was emitted although a later position of search matches as long
LZEarliestMatchWitness ==
    /\ prog = "lz77"
    /\ \E k \in 1..Len(tokens) :
          /\ tokens[k][1] > 0
          /\ LET i == TokenCursor(tokens, k)
                 j == Len(SearchAt(i)) - tokens[k][1]
             IN  \E j2 \in (j + 1)..(Len(SearchAt(i)) - 1) :
                    OccursAt(SearchAt(i), LookAt(i), j2, tokens[k][2])

----------------------------------------------------------------------------
(* Properties of the integer codec *)

\* C3: for every vector v of non-negative integers, the empty vector included,
\* IntegerCompressor.decode(IntegerCompressor.encode(v), len(v)) returns (v, b'').
IntRoundTrip ==
    (prog = "integer" /\ pc \notin {"int_encode", "int_decode"}) =>
        /\ err = "none"
        /\ numbers = intvec
        /\ bits = <<>>

\* the binary representation of n without leading zeros, with zero written as `zero`
Numeral(n, zero) ==
    IF n = 0 THEN zero
    ELSE CHOOSE b \in SeqsUpTo({0, 1}, MaxInt) : Len(b) > 0 /\ b[1] = 1 /\ BitsToInt(b) = n

\* len(b) ones, a zero, then b, for each integer of v in order
RECURSIVE UnaryFramed(_, _)
UnaryFramed(v, zero) ==
    IF Len(v) = 0 THEN <<>>
    ELSE LET b == Numeral(v[Len(v)], zero)
         IN  UnaryFramed(SubSeq(v, 1, Len(v) - 1), zero) \o Ones(Len(b)) \o <<0>> \o b

\* C19 as stated: for each integer n encode emits len(b) ones, a zero, then b, the
\* binary representation of n without leading zeros, b empty for n = 0, so that 0
\* is the single bit "0".
IntZeroIsSingleBit ==
    (prog = "integer" /\ pc = "int_decode") => bits = UnaryFramed(intvec, <<>>)

\* C19: for each integer n encode emits len(b) ones, a zero, then b, the binary
\* representation of n without leading zeros, b being "0" for n = 0, so that 0 is
\* the three bits "100".
IntZeroIsThreeBits ==
    (prog = "integer" /\ pc = "int_decode") => bits = UnaryFramed(intvec, <<0>>)

\* encode has returned 1110101 for 5 followed by 100 for 0
IntZeroIsThreeBitsWitness ==
    /\ prog = "integer"
    /\ pc = "int_decode"
    /\ intvec = <<5, 0>>
    /\ bits = <<1, 1, 1, 0, 1, 0, 1, 1, 0, 0>>

----------------------------------------------------------------------------
(* Properties of the Huffman coder *)

\* the letters that occur in a symbol list
Occurring(symbols) == {symbols[k] : k \in 1..Len(symbols)}

\* the code word a is the beginning of the code word b
IsPrefix(a, b) == Len(a) <= Len(b) /\ SubSeq(b, 1, Len(a)) = a

\* create_codes has returned <<code_lengths, codes>>
CodesCreated == prog = "create_codes" /\ pc # "call"

\* C13: for every non-empty symbol list the code table of create_codes has a code
\* word for every symbol that occurs, no code word is a prefix of another, and
\* decode_next gives back each encoded symbol and the bits that followed it.
HuffmanPrefixFree ==
    CodesCreated =>
        /\ Occurring(arg.data) \subseteq DOMAIN ret[2]
        /\ \A a, b \in DOMAIN ret[2] : a # b => ~IsPrefix(ret[2][a], ret[2][b])
        /\ pc # "failed"
        /\ pc = "returned" => (last_symbol = arg.letter /\ bits = arg.rest)

\* a letter of a three-length code decoded with bits left after its code word
HuffmanPrefixFreeWitness ==
    /\ CodesCreated
    /\ pc = "returned"
    /\ Cardinality({Len(ret[2][a]) : a \in DOMAIN ret[2]}) >= 3
    /\ Len(ret[2][arg.letter]) >= 3
    /\ last_symbol = arg.letter
    /\ arg.rest = <<0, 1, 1, 0>>
    /\ bits = arg.rest

\* C14: for every code-length vector each symbol i with bit_lengths[i] = L > 0
\* receives a code word of exactly L bits and each symbol with bit_lengths[i] = 0
\* receives none.
CodeWordHasItsLength ==
    (prog = "generate_codes" /\ pc = "returned") =>
        \A i \in 0..(Len(arg) - 1) :
            IF arg[i + 1] > 0
            THEN i \in DOMAIN ret /\ Len(ret[i]) = arg[i + 1]
            ELSE i \notin DOMAIN ret

\* C15: in every code table built from Huffman-derived lengths, for coded symbols a
\* and b: if len(a) < len(b) then code(a) left-aligned to len(b) is numerically
\* smaller than code(b), and if len(a) = len(b) and a < b then code(a) < code(b).
CanonicalOrder ==
    CodesCreated =>
        \A a, b \in DOMAIN ret[2] :
            /\ Len(ret[2][a]) = ret[1][a + 1]
            /\ ret[1][a + 1] < ret[1][b + 1] =>
                   BitsToInt(ret[2][a] \o [k \in 1..(ret[1][b + 1] - ret[1][a + 1]) |-> 0])
                       < BitsToInt(ret[2][b])
            /\ (ret[1][a + 1] = ret[1][b + 1] /\ a < b) =>
                   BitsToInt(ret[2][a]) < BitsToInt(ret[2][b])

\* a table with code words of two lengths, two of them of the same length
CanonicalOrderWitness ==
    /\ CodesCreated
    /\ pc = "encode"
    /\ \E a, b, c \in DOMAIN ret[2] :
           a < b /\ ret[1][a + 1] = ret[1][b + 1] /\ ret[1][c + 1] < ret[1][a + 1]

\* C16: for every frequency map with at least two symbols the code lengths of
\* _create_huffman_tree are monotone in frequency: a symbol that occurs strictly more
\* often than another has a code length that is not longer.
LengthsMonotone ==
    (CodesCreated /\ Cardinality(Occurring(arg.data)) >= 2) =>
        \A a, b \in Occurring(arg.data) :
            Cardinality({k \in 1..Len(arg.data) : arg.data[k] = a})
                > Cardinality({k \in 1..Len(arg.data) : arg.data[k] = b}) =>
                (ret[1][a + 1] > 0 /\ ret[1][a + 1] <= ret[1][b + 1])

\* four letters with the frequencies 4, 2, 1, 1 and the lengths 1, 2, 3, 3
LengthsMonotoneWitness ==
    /\ CodesCreated
    /\ arg.data = <<0, 0, 0, 0, 1, 1, 2, 3>>
    /\ ret[1] = <<1, 2, 3, 3>>

----------------------------------------------------------------------------
(* Properties of the length and distance alphabets *)

\* the number of extra bits the table of the alphabet gives for a symbol
TableExtraBits(symbol) ==
    IF prog = "length" THEN LENGTH_TABLE[symbol - 257 + 1][2]
    ELSE DISTANCE_TABLE[symbol + 1][2]

\* C18: for every length 3..258 decode_length, applied to the symbol and the extra
\* bits of encode followed by any remaining bits r, returns the length and r; for
\* every distance 1..32768 decode_distance does the same for the distance. Exactly
\* the number of extra bits of the table is produced and consumed.
AlphabetRoundTrip ==
    (\/ prog = "length" /\ 3 <= arg.value /\ arg.value <= 258
     \/ prog = "distance" /\ 1 <= arg.value /\ arg.value <= 32768) =>
        /\ pc # "failed"
        /\ pc = "decode" =>
               /\ Len(ret[3]) = TableExtraBits(ret[2])
               /\ bits = ret[3] \o arg.rest
        /\ pc = "returned" =>
               /\ ret = <<"none", arg.value, arg.rest>>
               /\ Len(bits) - Len(ret[3]) = TableExtraBits(last_symbol)

\* C25: SymbolLengthAlphabet.encode returns the first table entry whose range
\* [base, base + 2^extra_bits) holds the length, so 258 is encoded as symbol 284 with
\* the extra bits 11111 and symbol 285 is produced for no length in 3..258;
\* decode_length maps both (284, 11111) and (285, no extra bits) to 258.
Length258TwoSymbols ==
    /\ (prog = "length" /\ pc = "decode") =>
           /\ ret[2] # 285
           /\ \A k \in 1..Len(LENGTH_TABLE) :
                  (LENGTH_TABLE[k][1] <= arg.value
                   /\ arg.value < LENGTH_TABLE[k][1] + 2 ^ LENGTH_TABLE[k][2])
                      => ret[2] <= 257 + (k - 1)
           /\ arg.value = 258 => (ret[2] = 284 /\ ret[3] = <<1, 1, 1, 1, 1>>)
    /\ (prog = "decode_length" /\ pc # "call" /\ arg.symbol = 285) =>
           ret = <<"none", 258, arg.data>>
    /\ (prog = "decode_length" /\ pc # "call" /\ arg.symbol = 284
        /\ arg.data = <<1, 1, 1, 1, 1>>) =>
           ret = <<"none", 258, <<>>>>

\* symbol 285 decoded to 258 without reading a bit
Length258TwoSymbolsWitness ==
    /\ prog = "decode_length"
    /\ pc = "returned"
    /\ arg = [symbol |-> 285, data |-> <<0, 1>>]
    /\ ret = <<"none", 258, <<0, 1>>>>

\* the distance 32768, with the 13 extra bits of symbol 29, decoded
AlphabetRoundTripWitness ==
    /\ prog = "distance"
    /\ pc = "returned"
    /\ arg = [value |-> 32768, rest |-> <<0, 1, 1, 0>>]
    /\ last_symbol = 29
    /\ Len(bits) = 13 + 4
    /\ ret = <<"none", 32768, <<0, 1, 1, 0>>>>

----------------------------------------------------------------------------
(* Properties of the block splitter *)

\* C22: in compress every block closed by the splitter (every block but the last)
\* holds at least 1512 tokens and its token count is 1000 + 512*k with k >= 1.
ClosedBlockLengths ==
    (prog = "split_blocks" /\ pc = "frame") =>
        \A b \in 1..(Len(blocks) - 1) :
            /\ Len(blocks[b]) >= 1512
            /\ (Len(blocks[b]) - 1000) % 512 = 0

\* a block closed at its second comparison, after 1000 + 512*2 tokens
ClosedBlockLengthsWitness ==
    /\ prog = "split_blocks"
    /\ pc = "frame"
    /\ Len(blocks) = 2
    /\ Len(blocks[1]) = 2024
    /\ Len(blocks[1]) + Len(blocks[2]) = Len(tokens)

\* compress has split the tokens of the large file and has framed no block yet
LargeFileSplit ==
    /\ prog = "deflate"
    /\ Len(data) = Len(FoxText) * FoxRepeats
    /\ pc = "frame"
    /\ res = <<>>

RECURSIVE Total(_, _)
Total(h, t) == IF t < 0 THEN 0 ELSE h[t] + Total(h, t - 1)

\* sum_i |N_i * |O| - O_i * |N||
RECURSIVE Delta(_, _, _)
Delta(O, N, t) ==
    IF t < 0 THEN 0
    ELSE LET d == N[t] * Total(O, NUM_OBSERVATION_TYPES - 1)
                  - O[t] * Total(N, NUM_OBSERVATION_TYPES - 1)
         IN  (IF d < 0 THEN -d ELSE d) + Delta(O, N, t - 1)

\* the conditions under which a block ends, for the histograms O and N and blockLen
EndsBlock(O, N, blockLen) ==
    LET sizeO == Total(O, NUM_OBSERVATION_TYPES - 1)
        sizeN == Total(N, NUM_OBSERVATION_TYPES - 1)
        base == (sizeN * 200 * sizeO) \div 512
        cutoff == IF blockLen < 10000 /\ sizeO + sizeN < 8192
                  THEN base + ((base * (8192 - (sizeO + sizeN))) \div 8192)
                  ELSE base
        lengthPenalty == (blockLen \div 4096) * sizeO
    IN  /\ sizeN >= 512
        /\ blockLen >= 1000
        /\ sizeO > 0
        /\ Delta(O, N, NUM_OBSERVATION_TYPES - 1) + lengthPenalty >= cutoff

\* C20: should_end_block(blockLen) returns true exactly when |N| >= 512,
\* blockLen >= 1000, |O| > 0 and delta + lengthPenalty >= cutoff, with
\* delta = sum_i |N_i*|O| - O_i*|N||, cutoff = (|N|*200*|O|) div 512 increased by
\* (cutoff*(8192-(|O|+|N|))) div 8192 when blockLen < 10000 and |O|+|N| < 8192, and
\* lengthPenalty = (blockLen div 4096)*|O|; it returns false whenever |N| < 512 or
\* blockLen < 1000.
EndsBlockExactly ==
    (prog = "should_end_block" /\ pc = "returned") =>
        /\ ret[1] = EndsBlock(arg.sp.observations, arg.sp.new_observations, arg.block_length)
        /\ (arg.sp.num_new_observations < 512 \/ arg.block_length < 1000) => ret[1] = FALSE

\* a short block ended by 512 matches after 1024 literals, above the raised cutoff
EndsBlockExactlyWitness ==
    /\ prog = "should_end_block"
    /\ pc = "returned"
    /\ ret[1] = TRUE
    /\ arg.block_length = 4096
    /\ arg.sp.num_observations = 1024
    /\ arg.sp.observations[0] = 1024
    /\ arg.sp.new_observations[8] = 512

----------------------------------------------------------------------------
(* Properties of the bit source *)

\* the bit count declared by the 4-byte prefix
DeclaredBitCount == FromBytesBig(Slice(packed, 0, 4))

\* the histogram without an observation
NoObservations == [t \in 0..(NUM_OBSERVATION_TYPES - 1) |-> 0]

\* C21: should_end_block changes the splitter only by committing the staged
\* histogram: when it returns false after passing the |N| >= 512 and blockLen >= 1000
\* test, O_i = old O_i + old N_i and N_i = 0 for every i, |O| = old |O| + old |N| and
\* |N| = 0; when it returns false because |N| < 512 or blockLen < 1000, and when it
\* returns true, the histograms and both totals are unchanged. reset sets all of
\* them to zero.
OnlyCommitChangesSplitter ==
    /\ (prog = "should_end_block" /\ pc = "returned") =>
           IF ~ret[1] /\ arg.sp.num_new_observations >= 512 /\ arg.block_length >= 1000
           THEN /\ \A t \in 0..(NUM_OBSERVATION_TYPES - 1) :
                       /\ ret[2].observations[t]
                              = arg.sp.observations[t] + arg.sp.new_observations[t]
                       /\ ret[2].new_observations[t] = 0
                /\ ret[2].num_observations
                       = arg.sp.num_observations + arg.sp.num_new_observations
                /\ ret[2].num_new_observations = 0
           ELSE ret[2] = arg.sp
    /\ (prog = "splitter" /\ ret # <<>> /\ ret[1] = "reset") =>
           /\ arg.self.observations = NoObservations
           /\ arg.self.new_observations = NoObservations
           /\ arg.self.num_observations = 0
           /\ arg.self.num_new_observations = 0

\* 512 new observations like the 1024 before them, committed by a call that
\* returned false
OnlyCommitChangesSplitterWitness ==
    /\ prog = "should_end_block"
    /\ pc = "returned"
    /\ arg.block_length = 4096
    /\ arg.sp.observations[0] = 1024
    /\ arg.sp.new_observations[0] = 512
    /\ ret[1] = FALSE
    /\ ret[2].observations[0] = 1536
    /\ ret[2].num_new_observations = 0

\* the blocks the splitting loop of compress would build: one consultation on
\* <<splitter, tokens in the current block, every consultation so far had
\* num_observations + num_new_observations equal to that number>>
Consult(toks, c) ==
    LET token == toks[c[4] + 1]
        observed == IF token[1] = 0 THEN observe_literal(c[1], token[3])
                    ELSE observe_match(c[1], token[2])
        decision == should_end_block(observed, c[2] + 1)
    IN  <<IF decision[1] THEN NewSplitter ELSE decision[2],
          IF decision[1] THEN 0 ELSE c[2] + 1,
          c[3] /\ observed.num_observations + observed.num_new_observations = c[2] + 1,
          c[4] + 1>>

RECURSIVE ConsultRun(_, _, _)
ConsultRun(toks, c, n) ==
    IF c[4] >= Len(toks) \/ n = 0 THEN c
    ELSE IF n = 1 THEN Consult(toks, c)
    ELSE CHOOSE r \in {ConsultRun(toks, mid, n - (n \div 2)) :
                          mid \in {ConsultRun(toks, c, n \div 2)}} : TRUE

\* C23: after any sequence of observe_literal, observe_match, should_end_block,
\* merge_new_observations and reset calls num_observations is the sum of
\* observations[] and num_new_observations the sum of new_observations[]; and in
\* compress, at every consultation of the splitter, num_observations +
\* num_new_observations is the number of tokens in the current block.
SplitterTotalsConsistent ==
    /\ prog = "splitter" =>
           /\ arg.self.num_observations
                  = Total(arg.self.observations, NUM_OBSERVATION_TYPES - 1)
           /\ arg.self.num_new_observations
                  = Total(arg.self.new_observations, NUM_OBSERVATION_TYPES - 1)
    /\ (prog = "split_blocks" /\ pc = "frame") =>
           ConsultRun(tokens, <<NewSplitter, 0, TRUE, 0>>, Len(tokens))[3]

\* a splitter whose third call committed 512 new observations to the 1024 it had
SplitterTotalsConsistentWitness ==
    /\ prog = "splitter"
    /\ arg.calls = 3
    /\ ret = <<"should_end_block", FALSE>>
    /\ arg.self.num_observations = 1536
    /\ arg.self.num_new_observations = 0

\* C24: every match token (distance > 0) emitted at cursor i has 3 <= length <= 257
\* and length <= distance <= min(512, i), so the copied bytes lie entirely before the
\* cursor, and only the final token of the stream may lack its trailing literal.
MatchBeforeCursor ==
    prog = "lz77" =>
        \A k \in 1..Len(tokens) :
            tokens[k][1] > 0 =>
                /\ 3 <= tokens[k][2] /\ tokens[k][2] <= 257
                /\ tokens[k][2] <= tokens[k][1]
                /\ tokens[k][1] <= Min(512, TokenCursor(tokens, k))
                /\ tokens[k][3] = None => (k = Len(tokens) /\ cur >= Len(data))

\* a match of 257 bytes found once the cursor has left the first 512 bytes behind, a
\* match that reaches back to the first byte, and a final match with nothing after it
MatchBeforeCursorWitness ==
    /\ prog = "lz77"
    /\ pc = "returned"
    /\ \E k \in 1..Len(tokens) :
           /\ tokens[k][2] = 257
           /\ TokenCursor(tokens, k) > 512
           /\ tokens[k][1] >= 257
    /\ \E k \in 1..Len(tokens) : tokens[k][1] > 0 /\ TokenCursor(tokens, k) = tokens[k][1]
    /\ tokens[Len(tokens)][1] > 0
    /\ tokens[Len(tokens)][3] = None

\* C11: on b"abcabcabcabc" encode returns at most 5 tokens: the literals a, b, c and
\* then one match of length 9 at distance 3, which overlaps the bytes it produces.
AbcOverlappingMatch ==
    (prog = "lz77" /\ data = AbcTimes(4) /\ pc # "lz_encode") =>
        /\ Len(tokens) <= 5
        /\ tokens = <<<<0, 0, 97>>, <<0, 0, 98>>, <<0, 0, 99>>, <<3, 9, None>>>>

\* C17: for every bit sequence b, binary_string_to_bytes(b) is 4 + ceil(len(b)/8)
\* bytes: the 4-byte big-endian count len(b), then the bits packed most significant
\* first with the unused low bits of the last byte zero; and bytes_to_binary_string
\* of it is b, without the padding bits.
BitSinkRoundTrip ==
    (prog = "bitsink" /\ pc # "frame") =>
        /\ Len(packed) = 4 + ((Len(res) + 7) \div 8)
        /\ ((packed[1] * 256 + packed[2]) * 256 + packed[3]) * 256 + packed[4] = Len(res)
        /\ \A j \in 1..(8 * (Len(packed) - 4)) :
               (packed[4 + ((j - 1) \div 8) + 1] \div (2 ^ (7 - ((j - 1) % 8)))) % 2
                   = IF j <= Len(res) THEN res[j] ELSE 0
        /\ pc = "returned" => (bits = res /\ err = "none")

\* nine bits packed into two payload bytes and read back
BitSinkRoundTripWitness ==
    /\ prog = "bitsink"
    /\ pc = "returned"
    /\ res = <<1, 0, 1, 1, 0, 0, 1, 0, 1>>
    /\ packed = <<0, 0, 0, 9, 178, 128>>
    /\ bits = res

\* C6: the bit source fails with a truncated-stream error when its input has fewer
\* than 4 prefix bytes or fewer than ceil(bitCount/8) payload bytes, and never
\* returns fewer bits than the prefix declares.
BitSourceRejectsTruncated ==
    (prog = "bitsource" /\ pc # "unpack") =>
        /\ (Len(packed) < 4 \/ 8 * (Len(packed) - 4) < DeclaredBitCount) => err # "none"
        /\ err = "none" => Len(bits) = DeclaredBitCount

----------------------------------------------------------------------------
(* Properties of decompress on arbitrary bit streams *)

\* decompress has left its block loop: it evaluates, or has evaluated,
\* `return LZ77Compressor.decode(tokens)`
LeftBlockLoop == prog = "decompress" /\ pc \in {"lz_decode", "returned", "crashed"}

\* C4: for every input byte string decompress never crashes: it returns a byte
\* string or fails with a stream error (ValueError); no IndexError from a
\* back-reference outside the output, no OverflowError from a literal above 255.
DecompressNeverCrashes ==
    prog = "decompress" => (pc # "crashed" /\ err \in {"none", "ValueError"})

\* C5: a block is decoded with a code table only when its header is 01 or 10; a block
\* that starts with 00, 11 or fewer than 2 bits makes decompress fail.
OnlyDeclaredHeaders ==
    (prog = "decompress" /\ block_header # <<>>) =>
        (block_header \in {<<0, 1>>, <<1, 0>>} \/ pc = "failed")

\* C7 as stated: decompress leaves its block loop only with the bit stream exhausted
\* immediately after an end-of-block symbol (256).
ReturnsOnlyAfterEndOfBlock ==
    LeftBlockLoop => (bits = <<>> /\ last_symbol = 256)

\* C26: decompress terminates on every finite input: every iteration of the block
\* loop and every symbol decode strictly shortens the remaining bit string or ends in
\* an error, so every run comes to a return or to an exception.
DecompressTerminates ==
    /\ [][((pc = "block" /\ Len(bits) > 0) \/ pc = "symbol")
              => (Len(bits') < Len(bits) \/ pc' = "failed")]_vars
    /\ <>(~Running)

\* a stream whose last block is dynamic, read to its end and returned
DecompressTerminatesWitness ==
    /\ prog = "decompress"
    /\ pc = "returned"
    /\ bits = <<>>
    /\ block_header = <<1, 0>>
    /\ Len(output) >= 1

\* C7: decompress leaves its block loop only with the bit stream exhausted, and
\* either immediately after an end-of-block symbol (256) or without having read any
\* block (the bit stream was empty); when the bits run out inside a block the next
\* read fails.
ReturnsAtBlockBoundary ==
    /\ LeftBlockLoop => (bits = <<>> /\ (last_symbol = 256 \/ block_header = <<>>))
    /\ (prog = "decompress" /\ pc = "symbol" /\ bits = <<>>) =>
           ReadSymbol(bits, length_literal_code, distance_code).err # "none"
    /\ (prog = "decompress" /\ pc = "failed") => err # "none"

\* a stream of two blocks, the second one dynamic, has been decoded to its end
ReturnsAtBlockBoundaryWitness ==
    /\ prog = "decompress"
    /\ pc = "returned"
    /\ block_header = <<1, 0>>
    /\ last_symbol = 256
    /\ Len(output) > 0

----------------------------------------------------------------------------
(* Properties of compress *)

\* C1: for every byte buffer x, decompress(compress(x)) returns exactly x, whichever
\* of the fixed or dynamic frame is chosen for each block: no step of compress or of
\* decompress fails, and the bytes returned are x.
DeflateRoundTrip ==
    prog = "deflate" =>
        /\ err = "none"
        /\ pc \notin {"failed", "crashed"}
        /\ pc = "returned" => output = data

\* a buffer framed with the dynamic codes, a back-reference among its tokens, has
\* come back from decompress
DeflateRoundTripWitness ==
    /\ prog = "deflate"
    /\ pc = "returned"
    /\ block_header = <<1, 0>>
    /\ \E k \in 1..Len(dtokens) : dtokens[k][1] > 0
    /\ dtokens = tokens
    /\ output = data

\* compress frames a block in this step
FramesBlock == prog = "deflate" /\ pc = "frame" /\ Len(blocks) > 0 /\ err' = "none"

\* C8 as stated: a block gets header 01 and the fixed frame whenever the fixed frame
\* is not longer than the dynamic frame, equal lengths included, and header 10 and
\* the dynamic frame only when the dynamic frame is strictly shorter.
FixedFrameOnTie ==
    [][FramesBlock =>
          IF Len(res_fixed') <= Len(res_dynamic')
          THEN res' = res \o <<0, 1>> \o res_fixed'
          ELSE res' = res \o <<1, 0>> \o res_dynamic']_vars

\* C8: a block gets header 01 and the fixed frame only when the fixed frame is
\* strictly shorter than the dynamic frame, and header 10 and the dynamic frame
\* whenever the dynamic frame is not longer, equal lengths included.
DynamicFrameOnTie ==
    [][FramesBlock =>
          IF Len(res_fixed') < Len(res_dynamic')
          THEN res' = res \o <<0, 1>> \o res_fixed'
          ELSE res' = res \o <<1, 0>> \o res_dynamic']_vars

\* a block whose two frames are equally long has been framed
DynamicFrameOnTieWitness ==
    /\ prog = "deflate"
    /\ pc = "frame"
    /\ Len(res_fixed) > 0
    /\ Len(res_fixed) = Len(res_dynamic)
    /\ res = <<1, 0>> \o res_dynamic

====
